---- MODULE Spec2Model ----
(***************************************************************************)
(* Thumbnail pre-generation (package pregen of cas-web-asset-server).      *)
(*                                                                         *)
(* Phase 1, Scanner.scan, joins the originals of a storage namespace to    *)
(* the derived thumbnails and builds a Manifest; phase 2,                  *)
(* Generator.generate_from_manifest, walks a Manifest and uploads the      *)
(* thumbnails missing at one target scale.                                 *)
(*                                                                         *)
(* A Python str is modelled as a sequence of tokens.  A token is one       *)
(* character ("a", "_", ".", "/", "0".."9") or an atom standing for a run  *)
(* of letters that no operation of the code looks into ("originals",       *)
(* "thumbnails", "att", "bot", "ich", "jpg", "png", "txt").  All tokens    *)
(* are lower case, so str.lower() leaves them as they are.                 *)
(***************************************************************************)
EXTENDS Integers, Sequences, FiniteSets, TLC

VARIABLES
    storage,      \* the storage namespace: the set of objects [key, size]
    manifest,     \* the Manifest in memory: Some(Manifest), or None
    manifestFile, \* the manifest file written by Manifest.save, or None
    scanCall,     \* the last scan call: its arguments, failure and outcome
    gen,          \* the Generator instance: configuration, stop flag, stats
    run,          \* the generate_from_manifest call in progress
    calls,        \* counters of the storage, codec, observer and sleep calls
    history,      \* summaries of the generate_from_manifest calls that returned
    cmd,          \* the generate or report command in progress and its exit code
    now           \* the wall clock, in hours

vars == <<storage, manifest, manifestFile, scanCall, gen, run, calls, history, cmd, now>>

\* Optional[T]: None is the empty sequence, a value x is Some(x) = <<x>>
None == <<>>
Some(x) == <<x>>

\* a local variable: x is evaluated once and F is applied to its value
Let(x, F(_)) == CHOOSE r \in {F(v) : v \in {x}} : TRUE

(***************************************************************************)
(* str helpers                                                             *)
(***************************************************************************)
Digit == {"0", "1", "2", "3", "4", "5", "6", "7", "8", "9"}

DigitVal(d) ==
    CASE d = "0" -> 0 [] d = "1" -> 1 [] d = "2" -> 2 [] d = "3" -> 3
      [] d = "4" -> 4 [] d = "5" -> 5 [] d = "6" -> 6 [] d = "7" -> 7
      [] d = "8" -> 8 [] d = "9" -> 9

DigitChar(n) ==
    CASE n = 0 -> "0" [] n = 1 -> "1" [] n = 2 -> "2" [] n = 3 -> "3"
      [] n = 4 -> "4" [] n = 5 -> "5" [] n = 6 -> "6" [] n = 7 -> "7"
      [] n = 8 -> "8" [] n = 9 -> "9"

\* str(n) of a non-negative int, as f"{scale}" formats it
RECURSIVE IntToStr(_)
IntToStr(n) ==
    IF n < 10 THEN <<DigitChar(n)>>
    ELSE IntToStr(n \div 10) \o <<DigitChar(n % 10)>>

\* int(s) of a non-empty run of digits (leading zeros allowed)
RECURSIVE StrToInt(_)
StrToInt(s) ==
    IF Len(s) = 0 THEN 0
    ELSE 10 * StrToInt(SubSeq(s, 1, Len(s) - 1)) + DigitVal(s[Len(s)])

\* s.rfind(c): the last index of c in s, 0 when absent
RFind(s, c) ==
    LET I == {i \in 1..Len(s) : s[i] = c}
    IN  IF I = {} THEN 0 ELSE CHOOSE i \in I : \A j \in I : j <= i

\* s.find(c): the first index of c in s, 0 when absent
Find(s, c) ==
    LET I == {i \in 1..Len(s) : s[i] = c}
    IN  IF I = {} THEN 0 ELSE CHOOSE i \in I : \A j \in I : i <= j

StartsWith(s, p) ==
    Len(p) <= Len(s) /\ SubSeq(s, 1, Len(p)) = p

Tail0(s, i) == SubSeq(s, i, Len(s))

\* The code point order of the first character of a token; the tokens that
\* occur in file names have distinct first characters.
Ord(t) ==
    CASE t = "." -> 46 [] t = "/" -> 47
      [] t \in Digit -> 48 + DigitVal(t)
      [] t = "_" -> 95
      [] t = "a" -> 97 [] t = "b" -> 98 [] t = "j" -> 106 [] t = "jpg" -> 106
      [] t = "m" -> 109 [] t = "p" -> 112 [] t = "png" -> 112
      [] t = "t" -> 116 [] t = "txt" -> 116 [] t = "x" -> 120 [] t = "z" -> 122
      [] OTHER -> 0

\* Python's s >= t on str: lexicographic by code point, a proper prefix is less
RECURSIVE StrGe(_, _)
StrGe(s, t) ==
    IF Len(t) = 0 THEN TRUE
    ELSE IF Len(s) = 0 THEN FALSE
    ELSE IF Ord(s[1]) # Ord(t[1]) THEN Ord(s[1]) > Ord(t[1])
    ELSE StrGe(Tail(s), Tail(t))

(***************************************************************************)
(* os.path                                                                 *)
(***************************************************************************)
\* the part of s that is left after its trailing "/" are removed
RECURSIVE RStripSlash(_)
RStripSlash(s) ==
    IF Len(s) > 0 /\ s[Len(s)] = "/" THEN RStripSlash(SubSeq(s, 1, Len(s) - 1))
    ELSE s

basename(p) == Tail0(p, RFind(p, "/") + 1)

dirname(p) ==
    LET head == SubSeq(p, 1, RFind(p, "/"))
    IN  IF RStripSlash(head) = <<>> THEN head ELSE RStripSlash(head)

join(a, b) ==
    IF Len(b) > 0 /\ b[1] = "/" THEN b
    ELSE IF a = <<>> \/ a[Len(a)] = "/" THEN a \o b
    ELSE a \o <<"/">> \o b

\* os.path.splitext: the extension starts at the last "." of the last path
\* component, unless only dots precede it there
splitext(p) ==
    LET sep == RFind(p, "/")
        dot == RFind(p, ".")
    IN  IF dot > sep /\ \E i \in (sep + 1)..(dot - 1) : p[i] # "."
        THEN [root |-> SubSeq(p, 1, dot - 1), ext |-> Tail0(p, dot)]
        ELSE [root |-> p, ext |-> <<>>]

(***************************************************************************)
(* Storage keys                                                            *)
(***************************************************************************)
\* s.replace('/originals/', '/thumbnails/'): every non-overlapping
\* occurrence, left to right
RECURSIVE ReplaceOriginals(_)
ReplaceOriginals(s) ==
    IF Len(s) = 0 THEN <<>>
    ELSE IF StartsWith(s, <<"/", "originals", "/">>)
         THEN <<"/", "thumbnails", "/">> \o ReplaceOriginals(Tail0(s, 4))
         ELSE <<s[1]>> \o ReplaceOriginals(Tail(s))

\* S3Client.get_thumbnail_key(original_key)
S3_get_thumbnail_key(original_key) == ReplaceOriginals(original_key)

IMAGE_EXTENSIONS ==
    {<<".", "jpg">>, <<".", "jpeg">>, <<".", "png">>, <<".", "gif">>,
     <<".", "tif">>, <<".", "tiff">>, <<".", "bmp">>}

\* Scanner.THUMB_PATTERN = ^(.+)_(\d+)(\.[^.]+)$ matched against a file name:
\* the extension starts at the last ".", the scale is the run of digits right
\* before it, "_" precedes the run and a non-empty stem precedes the "_".
DigitRunStart(f, dot) ==
    LET I == {i \in 1..(dot - 1) : \A j \in i..(dot - 1) : f[j] \in Digit}
    IN  IF I = {} THEN dot ELSE CHOOSE i \in I : \A j \in I : i <= j

THUMB_PATTERN(f) ==
    LET dot == RFind(f, ".")
        d   == DigitRunStart(f, dot)
    IN  IF dot > 0 /\ dot < Len(f) /\ d < dot /\ d > 2 /\ f[d - 1] = "_"
        THEN Some([uuid_part |-> SubSeq(f, 1, d - 2),
                   scale     |-> SubSeq(f, d, dot - 1),
                   ext       |-> Tail0(f, dot)])
        ELSE None

\* Scanner.extract_thumbnail_info(thumb_key)
extract_thumbnail_info(thumb_key) ==
    LET match == THUMB_PATTERN(basename(thumb_key))
    IN  IF match # None
        THEN Some([normalized_key |->
                       join(dirname(thumb_key), match[1].uuid_part \o match[1].ext),
                   scale          |-> StrToInt(match[1].scale),
                   original_key   |-> thumb_key])
        ELSE None

\* Scanner.normalize_thumbnail_key(thumb_key)
normalize_thumbnail_key(thumb_key) ==
    LET match == THUMB_PATTERN(basename(thumb_key))
    IN  IF match # None
        THEN join(dirname(thumb_key), match[1].uuid_part \o match[1].ext)
        ELSE thumb_key

(***************************************************************************)
(* Entity model: ThumbnailInfo, ImageRecord, CollectionStats               *)
(***************************************************************************)
ThumbnailInfo(scale, key, size, modified) ==
    [scale |-> scale, key |-> key, size |-> size, modified |-> modified]

ImageRecord(original_key, original_size, original_modified, base_thumbnail_key, collection, filename) ==
    [original_key       |-> original_key,
     original_size      |-> original_size,
     original_modified  |-> original_modified,
     base_thumbnail_key |-> base_thumbnail_key,
     collection         |-> collection,
     filename           |-> filename,
     thumbnails         |-> <<>>]

\* ImageRecord.add_thumbnail: thumbnails[info.scale] = info
add_thumbnail(record, info) ==
    [record EXCEPT !.thumbnails =
        [s \in (DOMAIN record.thumbnails) \cup {info.scale} |->
            IF s = info.scale THEN info ELSE record.thumbnails[s]]]

\* ImageRecord.thumbnail_exists: any thumbnail at all
thumbnail_exists(record) == DOMAIN record.thumbnails # {}

\* ImageRecord.has_thumbnail(scale)
has_thumbnail(record, scale) ==
    IF scale # None THEN scale[1] \in DOMAIN record.thumbnails
    ELSE DOMAIN record.thumbnails # {}

\* a get_thumbnail_key that puts the suffix before the first "." of the key
get_thumbnail_key_FirstDot(record, scale) ==
    LET base == record.base_thumbnail_key
        dot  == Find(base, ".")
    IN  SubSeq(base, 1, dot - 1) \o <<"_">> \o IntToStr(scale)
        \o <<".">> \o Tail0(base, dot + 1)

\* ImageRecord.get_thumbnail_key(scale): root, ext = rsplit('.', 1) of the whole
\* base key, then f"{root}_{scale}.{ext}"
get_thumbnail_key(record, scale) ==
    LET base == record.base_thumbnail_key
        dot  == RFind(base, ".")
    IN  SubSeq(base, 1, dot - 1) \o <<"_">> \o IntToStr(scale)
        \o <<".">> \o Tail0(base, dot + 1)

\* a base key without "." splits into one part only: the unpacking into
\* (root, ext) raises ValueError
get_thumbnail_key_raises(record) == RFind(record.base_thumbnail_key, ".") = 0

CollectionStats(name) ==
    [name |-> name, total_images |-> 0, with_thumbnails |-> 0,
     missing_thumbnails |-> 0, total_original_bytes |-> 0,
     total_thumbnail_bytes |-> 0]

\* a percentage as the exact fraction num / den
Percent(num, den) == [num |-> num, den |-> den]

\* CollectionStats.thumbnail_coverage: 100.0 for no images, else
\* (with_thumbnails / total_images) * 100
thumbnail_coverage(stats) ==
    IF stats.total_images = 0
    THEN Percent(100, 1)
    ELSE Percent(stats.with_thumbnails * 100, stats.total_images)

\* sum(t.size for t in record.thumbnails.values())
RECURSIVE SumSizes(_, _)
SumSizes(thumbnails, scales) ==
    IF scales = {} THEN 0
    ELSE LET s == CHOOSE x \in scales : TRUE
         IN  thumbnails[s].size + SumSizes(thumbnails, scales \ {s})

(***************************************************************************)
(* Manifest                                                                *)
(***************************************************************************)
\* Manifest.create_new as Scanner.scan calls it for an S3 client: created_at is
\* the time of the call, the provenance is the client's configuration
create_new(storage_type) ==
    [created_at       |-> now,
     s3_endpoint      |-> Some("endpoint"),
     s3_bucket        |-> Some("bucket"),
     s3_prefix        |-> "att",
     storage_type     |-> storage_type,
     local_root       |-> None,
     collections      |-> <<>>,
     collection_stats |-> <<>>,
     records          |-> <<>>]

\* Manifest.age_hours: now - created_at, in hours
age_hours(m) == now - m.created_at

AGE_WARNING_HOURS == 24

\* Manifest.is_stale(threshold_hours):
\* threshold = threshold_hours or self.AGE_WARNING_HOURS
is_stale(m, threshold_hours) ==
    LET threshold == IF threshold_hours # None /\ threshold_hours[1] # 0
                     THEN threshold_hours[1]
                     ELSE AGE_WARNING_HOURS
    IN  age_hours(m) > threshold

\* the statistics entry add_record updates for one record
add_record_stats_NoMissing(stats, record) ==
    IF thumbnail_exists(record)
    THEN [stats EXCEPT
            !.total_images = @ + 1,
            !.total_original_bytes = @ + record.original_size,
            !.with_thumbnails = @ + 1,
            !.total_thumbnail_bytes =
                @ + SumSizes(record.thumbnails, DOMAIN record.thumbnails)]
    ELSE [stats EXCEPT
            !.total_images = @ + 1,
            !.total_original_bytes = @ + record.original_size]

\* a statistics update that counts the thumbnails instead of the records
\* that have one
add_record_stats_CountThumbnails(stats, record) ==
    IF thumbnail_exists(record)
    THEN [stats EXCEPT
            !.total_images = @ + 1,
            !.total_original_bytes = @ + record.original_size,
            !.with_thumbnails = @ + Cardinality(DOMAIN record.thumbnails),
            !.total_thumbnail_bytes =
                @ + SumSizes(record.thumbnails, DOMAIN record.thumbnails)]
    ELSE [stats EXCEPT
            !.total_images = @ + 1,
            !.total_original_bytes = @ + record.original_size,
            !.missing_thumbnails = @ + 1]

\* a statistics update that assigns the thumbnail bytes instead of adding them
add_record_stats_AssignBytes(stats, record) ==
    IF thumbnail_exists(record)
    THEN [stats EXCEPT
            !.total_images = @ + 1,
            !.total_original_bytes = @ + record.original_size,
            !.with_thumbnails = @ + 1,
            !.total_thumbnail_bytes =
                SumSizes(record.thumbnails, DOMAIN record.thumbnails)]
    ELSE [stats EXCEPT
            !.total_images = @ + 1,
            !.total_original_bytes = @ + record.original_size,
            !.missing_thumbnails = @ + 1]

add_record_stats(stats, record) ==
    IF thumbnail_exists(record)
    THEN [stats EXCEPT
            !.total_images = @ + 1,
            !.total_original_bytes = @ + record.original_size,
            !.with_thumbnails = @ + 1,
            !.total_thumbnail_bytes =
                @ + SumSizes(record.thumbnails, DOMAIN record.thumbnails)]
    ELSE [stats EXCEPT
            !.total_images = @ + 1,
            !.total_original_bytes = @ + record.original_size,
            !.missing_thumbnails = @ + 1]

\* Manifest.add_record
add_record(m, record) ==
    LET old  == m.collection_stats
        prev == IF record.collection \in DOMAIN old
                THEN old[record.collection]
                ELSE CollectionStats(record.collection)
    IN  [m EXCEPT
            !.records = Append(@, record),
            !.collection_stats =
                [c \in (DOMAIN old) \cup {record.collection} |->
                    IF c = record.collection
                    THEN add_record_stats(prev, record)
                    ELSE old[c]]]

\* Manifest.total_images / total_with_thumbnails / total_missing_thumbnails
total_images(m) == Len(m.records)

total_with_thumbnails(m) ==
    Cardinality({i \in 1..Len(m.records) : thumbnail_exists(m.records[i])})

total_missing_thumbnails(m) ==
    Cardinality({i \in 1..Len(m.records) : ~thumbnail_exists(m.records[i])})

(***************************************************************************)
(* Generator                                                               *)
(***************************************************************************)
\* Python truthiness of an Optional[int]: None and 0 are false
Truthy(limit) == limit # None /\ limit[1] # 0

InList(x, list) == \E i \in 1..Len(list) : list[i] = x

\* GenerationStats(total_to_process=n)
GenerationStats(n) ==
    [total_to_process |-> n, processed |-> 0, skipped |-> 0, errors |-> 0,
     bytes_generated |-> 0, error_details |-> <<>>]

\* Generator.__init__
\* GenerationStats.completed_count and remaining_count
completed_count(stats) == stats.processed + stats.skipped + stats.errors

remaining_count(stats) == stats.total_to_process - completed_count(stats)

Generator(cadence, dry_run, size) ==
    [cadence |-> cadence, dry_run |-> dry_run, size |-> size,
     stop_requested |-> FALSE, stats |-> GenerationStats(0)]

\* Generator._get_records_to_process, from record i on; past is the local
\* past_resume_point.  An empty collections list is as good as None.
RECURSIVE RecordsToProcessFrom(_, _, _, _, _, _)
RecordsToProcessFrom(records, i, past, collections, resume_from, target_scale) ==
    IF i > Len(records) THEN <<>>
    ELSE LET record == records[i]
         IN  IF collections # <<>> /\ ~InList(record.collection, collections)
             THEN RecordsToProcessFrom(records, i + 1, past, collections,
                                       resume_from, target_scale)
             ELSE IF has_thumbnail(record, Some(target_scale))
             THEN RecordsToProcessFrom(records, i + 1, past, collections,
                                       resume_from, target_scale)
             ELSE IF ~past /\ ~StrGe(record.filename, resume_from[1])
             THEN RecordsToProcessFrom(records, i + 1, FALSE, collections,
                                       resume_from, target_scale)
             ELSE <<record>> \o
                  RecordsToProcessFrom(records, i + 1, TRUE, collections,
                                       resume_from, target_scale)

get_records_to_process(m, collections, resume_from, target_scale) ==
    RecordsToProcessFrom(m.records, 1, resume_from = None, collections,
                         resume_from, target_scale)

\* the counting loop of generate_from_manifest: it appends, counts, and breaks
\* once `limit and count >= limit`
CollectUpToLimit(candidates, limit) ==
    IF Truthy(limit)
    THEN LET n == IF limit[1] >= 1 THEN limit[1] ELSE 1
         IN  SubSeq(candidates, 1, IF n < Len(candidates) THEN n ELSE Len(candidates))
    ELSE candidates

GenerateArgs(collections, resume_from, progress, limit) ==
    [collections |-> collections, resume_from |-> resume_from,
     progress |-> progress, limit |-> limit]

\* the calls of one generate_from_manifest: storage, codec, time.sleep, the
\* observer's callbacks and how many of these raised
NoCalls ==
    [download |-> 0, generate |-> 0, upload |-> 0, sleep |-> 0, observer |-> 0,
     raised |-> 0, enumerated |-> FALSE]

IdleRun ==
    [pc |-> "idle", records |-> <<>>, i |-> 0,
     args |-> GenerateArgs(<<>>, None, FALSE, None)]

\* what is kept of a call that returned
Summary ==
    [args |-> run.args, stats |-> gen.stats, calls |-> calls,
     stopped |-> gen.stop_requested,
     fresh |-> scanCall.after = Len(history),  \* the Manifest was scanned after the call before
     crashed |-> FALSE]

\* len(thumb_data) of the codec's output
ThumbLen == 14

Keys(objects) == {o.key : o \in objects}

\* S3Client.upload_object: put_object replaces the object under the key
upload_object(objects, key, size) ==
    {o \in objects : o.key # key} \cup {[key |-> key, size |-> size]}

\* Generator.stop
Stop ==
    /\ ~gen.stop_requested
    /\ gen' = [gen EXCEPT !.stop_requested = TRUE]
    /\ UNCHANGED <<storage, manifest, manifestFile, scanCall, run, calls, history, cmd, now>>

\* a generate_from_manifest without the early check of the stop flag
GenerateStart_NoEarlyStop(collections, resume_from, progress, limit) ==
    /\ run.pc \in {"idle", "loaded", "returned"}
    /\ manifest # None
    /\ LET args == GenerateArgs(collections, resume_from, progress, limit)
           todo == CollectUpToLimit(
                       get_records_to_process(manifest[1], collections,
                                              resume_from, gen.size),
                       limit)
       IN  /\ gen' = [gen EXCEPT !.stats = GenerationStats(Len(todo))]
           /\ run' = [pc |-> "loop", records |-> todo, i |-> 1, args |-> args]
           /\ calls' = [NoCalls EXCEPT !.enumerated = TRUE]
           /\ history' = history
    /\ UNCHANGED <<storage, manifest, manifestFile, scanCall, cmd, now>>

\* a generate_from_manifest whose early return clears the stop flag
GenerateStart_ClearsStop(collections, resume_from, progress, limit) ==
    /\ run.pc \in {"idle", "loaded", "returned"}
    /\ manifest # None
    /\ LET args == GenerateArgs(collections, resume_from, progress, limit)
           todo == CollectUpToLimit(
                       get_records_to_process(manifest[1], collections,
                                              resume_from, gen.size),
                       limit)
       IN  IF gen.stop_requested
           THEN /\ gen' = [gen EXCEPT !.stats = GenerationStats(0),
                                      !.stop_requested = FALSE]
                /\ run' = [pc |-> "returned", records |-> <<>>, i |-> 0, args |-> args]
                /\ calls' = NoCalls
                /\ history' = Append(history,
                                     [Summary EXCEPT !.args = args,
                                                     !.stats = GenerationStats(0),
                                                     !.calls = NoCalls])
           ELSE /\ gen' = [gen EXCEPT !.stats = GenerationStats(Len(todo))]
                /\ run' = [pc |-> "loop", records |-> todo, i |-> 1, args |-> args]
                /\ calls' = [NoCalls EXCEPT !.enumerated = TRUE]
                /\ history' = history
    /\ UNCHANGED <<storage, manifest, manifestFile, scanCall, cmd, now>>

\* generate_from_manifest up to its loop: the early-stop return, or the
\* enumeration of the candidates and the fresh GenerationStats
GenerateStart(collections, resume_from, progress, limit) ==
    /\ run.pc \in {"idle", "loaded", "returned"}
    /\ manifest # None
    /\ LET args == GenerateArgs(collections, resume_from, progress, limit)
           todo == CollectUpToLimit(
                       get_records_to_process(manifest[1], collections,
                                              resume_from, gen.size),
                       limit)
       IN  IF gen.stop_requested
           THEN /\ gen' = [gen EXCEPT !.stats = GenerationStats(0)]
                /\ run' = [pc |-> "returned", records |-> <<>>, i |-> 0, args |-> args]
                /\ calls' = NoCalls
                /\ history' = Append(history,
                                     [Summary EXCEPT !.args = args,
                                                     !.stats = GenerationStats(0),
                                                     !.calls = NoCalls])
           ELSE /\ gen' = [gen EXCEPT !.stats = GenerationStats(Len(todo))]
                /\ run' = [pc |-> "loop", records |-> todo, i |-> 1, args |-> args]
                /\ calls' = [NoCalls EXCEPT !.enumerated = TRUE]
                /\ history' = history
    /\ UNCHANGED <<storage, manifest, manifestFile, scanCall, cmd, now>>

\* the rest of one loop iteration after _process_record: the observer's
\* on_progress_update and the cadence pause
AfterRecord(c) ==
    [c EXCEPT
        !.observer = IF run.args.progress THEN @ + 1 ELSE @,
        !.sleep = IF gen.cadence > 0 /\ ~gen.dry_run THEN @ + 1 ELSE @]

\* an except branch that logs the failure and counts nothing
RecordFailed_NoCount(c) ==
    /\ gen' = gen
    /\ calls' = AfterRecord([c EXCEPT !.observer =
                                IF run.args.progress THEN @ + 1 ELSE @])
    /\ run' = [run EXCEPT !.pc = "loop", !.i = @ + 1]

\* the except branch of _process_record for the current record
RecordFailed(c) ==
    /\ gen' = [gen EXCEPT
                 !.stats.errors = @ + 1,
                 !.stats.error_details = Append(@, run.records[run.i].filename)]
    /\ calls' = AfterRecord([c EXCEPT !.observer =
                                IF run.args.progress THEN @ + 1 ELSE @])
    /\ run' = [run EXCEPT !.pc = "loop", !.i = @ + 1]

\* a loop that does not look at the stop flag
LoopHead_NoStop ==
    /\ run.pc = "loop"
    /\ IF run.i > Len(run.records)
       THEN /\ run' = [run EXCEPT !.pc = "returned"]
            /\ history' = Append(history, Summary)
            /\ UNCHANGED <<gen, calls>>
       ELSE IF gen.dry_run
       THEN /\ gen' = [gen EXCEPT !.stats.processed = @ + 1]
            /\ calls' = AfterRecord([calls EXCEPT !.observer =
                                        IF run.args.progress THEN @ + 1 ELSE @])
            /\ run' = [run EXCEPT !.i = @ + 1]
            /\ UNCHANGED history
       ELSE /\ run' = [run EXCEPT !.pc = "download"]
            /\ UNCHANGED <<gen, calls, history>>
    /\ UNCHANGED <<storage, manifest, manifestFile, scanCall, cmd, now>>

\* a loop that does not look at dry_run
LoopHead_NoDryRun ==
    /\ run.pc = "loop"
    /\ IF run.i > Len(run.records) \/ gen.stop_requested
       THEN /\ run' = [run EXCEPT !.pc = "returned"]
            /\ history' = Append(history, Summary)
            /\ UNCHANGED <<gen, calls>>
       ELSE /\ run' = [run EXCEPT !.pc = "download"]
            /\ UNCHANGED <<gen, calls, history>>
    /\ UNCHANGED <<storage, manifest, manifestFile, scanCall, cmd, now>>

\* the head of the loop: leave when the list is done or stop was requested,
\* count the record in a dry run, or start on the record
LoopHead ==
    /\ run.pc = "loop"
    /\ IF run.i > Len(run.records) \/ gen.stop_requested
       THEN /\ run' = [run EXCEPT !.pc = "returned"]
            /\ history' = Append(history, Summary)
            /\ UNCHANGED <<gen, calls>>
       ELSE IF gen.dry_run
       THEN /\ gen' = [gen EXCEPT !.stats.processed = @ + 1]
            /\ calls' = AfterRecord([calls EXCEPT !.observer =
                                        IF run.args.progress THEN @ + 1 ELSE @])
            /\ run' = [run EXCEPT !.i = @ + 1]
            /\ UNCHANGED history
       ELSE /\ run' = [run EXCEPT !.pc = "download"]
            /\ UNCHANGED <<gen, calls, history>>
    /\ UNCHANGED <<storage, manifest, manifestFile, scanCall, cmd, now>>

\* self.s3.download_object(record.original_key); a missing object raises
Download(ok) ==
    /\ run.pc = "download"
    /\ ok => run.records[run.i].original_key \in Keys(storage)
    /\ IF ok
       THEN /\ run' = [run EXCEPT !.pc = "transcode"]
            /\ calls' = [calls EXCEPT !.download = @ + 1]
            /\ UNCHANGED gen
       ELSE RecordFailed([calls EXCEPT !.download = @ + 1])
    /\ UNCHANGED <<storage, manifest, manifestFile, scanCall, history, cmd, now>>

\* self.thumb_gen.generate(image_data, ext)
Transcode(ok) ==
    /\ run.pc = "transcode"
    /\ IF ok
       THEN /\ run' = [run EXCEPT !.pc = "upload"]
            /\ calls' = [calls EXCEPT !.generate = @ + 1]
            /\ UNCHANGED gen
       ELSE RecordFailed([calls EXCEPT !.generate = @ + 1])
    /\ UNCHANGED <<storage, manifest, manifestFile, scanCall, history, cmd, now>>

\* an upload to the base key, without the scale suffix
Upload_ToBaseKey(ok) ==
    /\ run.pc = "upload"
    /\ LET record == run.records[run.i]
       IN  IF get_thumbnail_key_raises(record)
           THEN /\ RecordFailed(calls)
                /\ UNCHANGED storage
           ELSE IF ok
           THEN /\ storage' = upload_object(storage, record.base_thumbnail_key,
                                            ThumbLen)
                /\ gen' = [gen EXCEPT !.stats.processed = @ + 1,
                                      !.stats.bytes_generated = @ + ThumbLen]
                /\ calls' = AfterRecord([calls EXCEPT
                               !.upload = @ + 1,
                               !.observer = IF run.args.progress THEN @ + 1 ELSE @])
                /\ run' = [run EXCEPT !.pc = "loop", !.i = @ + 1]
           ELSE /\ RecordFailed([calls EXCEPT !.upload = @ + 1])
                /\ UNCHANGED storage
    /\ UNCHANGED <<manifest, manifestFile, scanCall, history, cmd, now>>

\* an upload that also files the new thumbnail under its Manifest record
Upload_UpdatesManifest(ok) ==
    /\ run.pc = "upload"
    /\ LET record == run.records[run.i]
           key == get_thumbnail_key(record, gen.size)
       IN  IF get_thumbnail_key_raises(record)
           THEN /\ RecordFailed(calls)
                /\ UNCHANGED <<storage, manifest>>
           ELSE IF ok
           THEN /\ storage' = upload_object(storage, key, ThumbLen)
                /\ manifest' = Some([manifest[1] EXCEPT !.records =
                       [i \in DOMAIN @ |->
                           IF @[i].original_key = record.original_key
                           THEN [@[i] EXCEPT !.thumbnails =
                                    (gen.size :> [scale |-> gen.size, key |-> key,
                                                  size |-> ThumbLen,
                                                  modified |-> "t1"]) @@ @]
                           ELSE @[i]]])
                /\ gen' = [gen EXCEPT !.stats.processed = @ + 1,
                                      !.stats.bytes_generated = @ + ThumbLen]
                /\ calls' = AfterRecord([calls EXCEPT
                               !.upload = @ + 1,
                               !.observer = IF run.args.progress THEN @ + 1 ELSE @])
                /\ run' = [run EXCEPT !.pc = "loop", !.i = @ + 1]
           ELSE /\ RecordFailed([calls EXCEPT !.upload = @ + 1])
                /\ UNCHANGED <<storage, manifest>>
    /\ UNCHANGED <<manifestFile, scanCall, history, cmd, now>>

\* record.get_thumbnail_key(self.thumb_gen.size), self.s3.upload_object and
\* the success bookkeeping
Upload(ok) ==
    /\ run.pc = "upload"
    /\ LET record == run.records[run.i]
       IN  IF get_thumbnail_key_raises(record)
           THEN /\ RecordFailed(calls)
                /\ UNCHANGED storage
           ELSE IF ok
           THEN /\ storage' = upload_object(storage,
                                            get_thumbnail_key(record, gen.size),
                                            ThumbLen)
                /\ gen' = [gen EXCEPT !.stats.processed = @ + 1,
                                      !.stats.bytes_generated = @ + ThumbLen]
                /\ calls' = AfterRecord([calls EXCEPT
                               !.upload = @ + 1,
                               !.observer = IF run.args.progress THEN @ + 1 ELSE @])
                /\ run' = [run EXCEPT !.pc = "loop", !.i = @ + 1]
           ELSE /\ RecordFailed([calls EXCEPT !.upload = @ + 1])
                /\ UNCHANGED storage
    /\ UNCHANGED <<manifest, manifestFile, scanCall, history, cmd, now>>

(***************************************************************************)
(* A progress observer whose callbacks raise.  on_dry_run and               *)
(* on_progress_update are called outside any try block; the                *)
(* on_file_processed(success=True) call is inside the try block of         *)
(* _process_record, the on_file_processed(success=False) call inside its   *)
(* except branch.                                                          *)
(***************************************************************************)
\* n callbacks were made, r of them raised
ObserverCalls(c, n, r) == [c EXCEPT !.observer = @ + n, !.raised = @ + r]

\* the bookkeeping of the except branch for the current record
StatsFailed(g) ==
    [g EXCEPT !.stats.errors = @ + 1,
              !.stats.error_details = Append(@, run.records[run.i].filename)]

\* the bookkeeping after a successful upload
StatsProcessed(g) ==
    [g EXCEPT !.stats.processed = @ + 1,
              !.stats.bytes_generated = @ + ThumbLen]

\* progress.on_dry_run(record) raises: nothing is counted and the exception
\* leaves generate_from_manifest
OnDryRunRaises ==
    /\ run.pc = "loop"
    /\ run.i <= Len(run.records)
    /\ ~gen.stop_requested
    /\ gen.dry_run
    /\ run.args.progress
    /\ run' = [run EXCEPT !.pc = "raised"]
    /\ calls' = ObserverCalls(calls, 1, 1)
    /\ UNCHANGED <<storage, manifest, manifestFile, scanCall, gen, history, cmd, now>>

\* progress.on_file_processed(record, success=True, ...) raises after the
\* upload was counted: the except branch counts the record as an error too
\* and calls on_file_processed(record, success=False, ...), which raises
\* again (the exception leaves generate_from_manifest) or returns
OnFileProcessedRaises(again) ==
    /\ run.pc = "upload"
    /\ run.args.progress
    /\ ~get_thumbnail_key_raises(run.records[run.i])
    /\ storage' = upload_object(storage,
                                get_thumbnail_key(run.records[run.i], gen.size),
                                ThumbLen)
    /\ gen' = StatsFailed(StatsProcessed(gen))
    /\ IF again
       THEN /\ run' = [run EXCEPT !.pc = "raised"]
            /\ calls' = ObserverCalls([calls EXCEPT !.upload = @ + 1], 2, 2)
       ELSE /\ run' = [run EXCEPT !.pc = "loop", !.i = @ + 1]
            /\ calls' = AfterRecord(
                           ObserverCalls([calls EXCEPT !.upload = @ + 1], 2, 1))
    /\ UNCHANGED <<manifest, manifestFile, scanCall, history, cmd, now>>

\* the download, the codec or the upload fails and
\* progress.on_file_processed(record, success=False, ...) raises in the except
\* branch: the error is counted and the exception leaves
\* generate_from_manifest
OnFailureRaises ==
    /\ run.pc \in {"download", "transcode", "upload"}
    /\ run.args.progress
    /\ gen' = StatsFailed(gen)
    /\ calls' = ObserverCalls(
                   IF run.pc = "download" THEN [calls EXCEPT !.download = @ + 1]
                   ELSE IF run.pc = "transcode" THEN [calls EXCEPT !.generate = @ + 1]
                   ELSE IF get_thumbnail_key_raises(run.records[run.i]) THEN calls
                   ELSE [calls EXCEPT !.upload = @ + 1],
                   1, 1)
    /\ run' = [run EXCEPT !.pc = "raised"]
    /\ UNCHANGED <<storage, manifest, manifestFile, scanCall, history, cmd, now>>

\* progress.on_progress_update(self.stats) raises after _process_record has
\* returned (a dry-run count, a failure at the current step when ~ok, or an
\* upload): the exception leaves generate_from_manifest
OnProgressUpdateRaises(ok) ==
    /\ run.args.progress
    /\ run.pc \in {"loop", "download", "transcode", "upload"}
    /\ run.pc = "loop" => run.i <= Len(run.records) /\ ~gen.stop_requested /\ gen.dry_run
    /\ run.pc \in {"download", "transcode"} => ~ok
    /\ LET uploaded == /\ run.pc = "upload"
                       /\ ok
                       /\ ~get_thumbnail_key_raises(run.records[run.i])
       IN  /\ storage' =
                 IF uploaded
                 THEN upload_object(storage,
                                    get_thumbnail_key(run.records[run.i], gen.size),
                                    ThumbLen)
                 ELSE storage
           /\ gen' = IF run.pc = "loop"
                     THEN [gen EXCEPT !.stats.processed = @ + 1]
                     ELSE IF uploaded THEN StatsProcessed(gen)
                     ELSE StatsFailed(gen)
           /\ calls' = ObserverCalls(
                   IF run.pc = "download" THEN [calls EXCEPT !.download = @ + 1]
                   ELSE IF run.pc = "transcode" THEN [calls EXCEPT !.generate = @ + 1]
                   ELSE IF run.pc = "upload"
                           /\ ~get_thumbnail_key_raises(run.records[run.i])
                   THEN [calls EXCEPT !.upload = @ + 1]
                   ELSE calls,
                   2, 1)
    /\ run' = [run EXCEPT !.pc = "raised"]
    /\ UNCHANGED <<manifest, manifestFile, scanCall, history, cmd, now>>

(***************************************************************************)
(* The objects and records the specifications draw from                    *)
(***************************************************************************)
\* f"{prefix}/{collection}/originals/" + a file name, with S3Config.prefix "att"
Key(collection, namespace, filename) ==
    <<"att", "/", collection, "/", namespace, "/">> \o filename

\* a stored object; its size stands for the content
Obj(collection, namespace, filename) ==
    [key |-> Key(collection, namespace, filename),
     size |-> Len(Key(collection, namespace, filename))]

F_a == <<"a", ".", "jpg">>
F_m == <<"m", ".", "jpg">>
F_z == <<"z", ".", "jpg">>

RECURSIVE WithThumbnails(_, _)
WithThumbnails(record, scales) ==
    IF scales = {} THEN record
    ELSE LET s == CHOOSE x \in scales : \A y \in scales : x <= y
         IN  WithThumbnails(
                 add_thumbnail(record,
                     ThumbnailInfo(s, get_thumbnail_key(record, s), ThumbLen, "t1")),
                 scales \ {s})

\* the record a scan makes of an original that has thumbnails at `scales`
RecordOf(collection, filename, scales) ==
    LET key == Key(collection, "originals", filename)
    IN  WithThumbnails(
            ImageRecord(key, Len(key), "t0", S3_get_thumbnail_key(key),
                        collection, filename),
            scales)

RECURSIVE AddRecords(_, _)
AddRecords(m, records) ==
    IF records = <<>> THEN m
    ELSE AddRecords(add_record(m, Head(records)), Tail(records))

NoScan ==
    [collections |-> <<>>, limit |-> None, fail |-> "none", listing_failed |-> FALSE,
     exit |-> None, after |-> 0]

\* no command has been started
NoCmd ==
    [pc |-> "none", name |-> "none", force |-> FALSE, client |-> FALSE,
     threshold |-> None, age |-> 0, stale |-> FALSE, output |-> <<>>,
     exit |-> None]

(***************************************************************************)
(* Storage listings (S3Client)                                             *)
(***************************************************************************)
\* list_objects_v2 returns the keys in ascending order
RECURSIVE SortKeys(_)
SortKeys(keys) ==
    IF keys = {} THEN <<>>
    ELSE LET k == CHOOSE x \in keys : \A y \in keys : StrGe(y, x)
         IN  <<k>> \o SortKeys(keys \ {k})

SizeOf(objects, key) == (CHOOSE o \in objects : o.key = key).size

\* list_objects_v2(Prefix=prefix): the keys under a prefix
list_prefix(objects, prefix) ==
    SortKeys({k \in Keys(objects) : StartsWith(k, prefix)})

\* S3Client.list_collections: the common prefixes right under f"{prefix}/"
list_collections(objects) ==
    LET names == {<<k[3]>> : k \in {x \in Keys(objects) :
                                      /\ StartsWith(x, <<"att", "/">>)
                                      /\ Len(x) >= 4 /\ x[3] # "/" /\ x[4] = "/"}}
        sorted == SortKeys(names)
    IN  [i \in 1..Len(sorted) |-> sorted[i][1]]

IsImage(key) == splitext(key).ext \in IMAGE_EXTENSIONS

\* S3Client.list_originals(collection), without resume_from
list_originals(objects, collection) ==
    SelectSeq(list_prefix(objects, <<"att", "/", collection, "/", "originals", "/">>),
              IsImage)

\* S3Client.list_thumbnails(collection)
list_thumbnails(objects, collection) ==
    SelectSeq(list_prefix(objects, <<"att", "/", collection, "/", "thumbnails", "/">>),
              IsImage)

(***************************************************************************)
(* Scanner                                                                 *)
(***************************************************************************)
\* the listing calls a scan makes; one of them may be made to raise
ListingCalls == {"list_collections", "list_originals", "list_thumbnails", "list_prefix"}

\* use_ondemand = limit is not None and limit <= 100
OnDemandMax == 100

use_ondemand(limit) == limit # None /\ limit[1] <= OnDemandMax

\* index[key][scale] = {...}
IndexPut(index, key, scale, info) ==
    [k \in (DOMAIN index) \cup {key} |->
        IF k = key
        THEN LET old == IF key \in DOMAIN index THEN index[key] ELSE <<>>
             IN  [s \in (DOMAIN old) \cup {scale} |->
                     IF s = scale THEN info ELSE old[s]]
        ELSE index[k]]

\* Scanner._load_thumbnail_index over the listed thumbnails from i on
RECURSIVE LoadThumbnailIndexFrom(_, _, _, _)
LoadThumbnailIndexFrom(index, thumbs, i, objects) ==
    IF i > Len(thumbs) THEN index
    ELSE LET actual_key == thumbs[i]
             info       == extract_thumbnail_info(actual_key)
             entry      == ThumbnailInfo(0, actual_key, SizeOf(objects, actual_key), "t1")
         IN  Let(IF info # None
                 THEN IndexPut(index, info[1].normalized_key, info[1].scale,
                               [entry EXCEPT !.scale = info[1].scale])
                 ELSE IndexPut(index, actual_key, 0, entry),
                 LAMBDA next : LoadThumbnailIndexFrom(next, thumbs, i + 1, objects))

load_thumbnail_index(objects, collection) ==
    Let(list_thumbnails(objects, collection),
        LAMBDA thumbs : LoadThumbnailIndexFrom(<<>>, thumbs, 1, objects))

\* the loop of _populate_thumbnails_ondemand over the listed keys
RECURSIVE PopulateFrom(_, _, _, _)
PopulateFrom(record, results, i, objects) ==
    IF i > Len(results) THEN record
    ELSE LET key  == results[i]
             info == extract_thumbnail_info(key)
         IN  IF info # None
             THEN Let(add_thumbnail(record,
                          ThumbnailInfo(info[1].scale, key, SizeOf(objects, key), "t1")),
                      LAMBDA next : PopulateFrom(next, results, i + 1, objects))
             ELSE PopulateFrom(record, results, i + 1, objects)

\* Scanner._populate_thumbnails_ondemand: a failed listing is logged as a
\* warning and the record is left as it is
populate_thumbnails_ondemand(record, objects, fail) ==
    LET prefix == splitext(record.base_thumbnail_key).root \o <<"_">>
    IN  IF fail = "list_prefix" THEN record
        ELSE Let(list_prefix(objects, prefix),
                 LAMBDA results : PopulateFrom(record, results, 1, objects))

\* the record _scan_collection makes of one listed original
ScannedRecord(original_key, collection, index, limit, objects, fail) ==
    LET base   == S3_get_thumbnail_key(original_key)
        record == ImageRecord(original_key, SizeOf(objects, original_key), "t0",
                              base, collection, basename(original_key))
        scales == IF base \in DOMAIN index THEN index[base] ELSE <<>>
    IN  IF use_ondemand(limit)
        THEN populate_thumbnails_ondemand(record, objects, fail)
        ELSE [record EXCEPT !.thumbnails = scales]

\* the `for original in self.s3.list_originals(collection)` loop of
\* _scan_collection from original i on: [manifest, count, prefix_listed]
RECURSIVE ScanOriginalsFrom(_, _, _, _, _, _)
ScanOriginalsFrom(m, originals, i, count, listed, ctx) ==
    IF i > Len(originals) THEN [manifest |-> m, count |-> count, listed |-> listed]
    ELSE IF Truthy(ctx.limit) /\ (ctx.already_scanned + count) >= ctx.limit[1]
    THEN [manifest |-> m, count |-> count, listed |-> listed]
    ELSE Let(add_record(m, ScannedRecord(originals[i], ctx.collection, ctx.index,
                                         ctx.limit, ctx.objects, ctx.fail)),
             LAMBDA next : ScanOriginalsFrom(next, originals, i + 1, count + 1,
                                             use_ondemand(ctx.limit), ctx))

\* Scanner._scan_collection: [manifest, count, raised, listing_failed]; a
\* failure of list_thumbnails or list_originals propagates, a failure of the
\* per-original prefix listing does not
scan_collection(m, collection, limit, already_scanned, objects, fail) ==
    IF ~use_ondemand(limit) /\ fail = "list_thumbnails"
    THEN [manifest |-> m, count |-> 0, raised |-> TRUE, listing_failed |-> TRUE]
    ELSE IF fail = "list_originals"
    THEN [manifest |-> m, count |-> 0, raised |-> TRUE, listing_failed |-> TRUE]
    ELSE Let([collection |-> collection, limit |-> limit,
              index |-> IF use_ondemand(limit) THEN <<>>
                        ELSE load_thumbnail_index(objects, collection),
              originals |-> list_originals(objects, collection),
              already_scanned |-> already_scanned, objects |-> objects, fail |-> fail],
             LAMBDA ctx :
                 Let(ScanOriginalsFrom(m, ctx.originals, 1, 0, FALSE, ctx),
                     LAMBDA r : [manifest |-> r.manifest, count |-> r.count,
                                 raised |-> FALSE,
                                 listing_failed |-> r.listed /\ fail = "list_prefix"]))

\* the `for collection in target_collections` loop of Scanner.scan
RECURSIVE ScanCollectionsFrom(_, _, _, _, _, _)
ScanCollectionsFrom(m, k, total_scanned, limit_reached, listing_failed, ctx) ==
    IF k > Len(m.collections) \/ limit_reached
    THEN [manifest |-> Some(m), listing_failed |-> listing_failed]
    ELSE Let(scan_collection(m, m.collections[k], ctx.limit, total_scanned,
                             ctx.objects, ctx.fail),
             LAMBDA r :
                 IF r.raised
                 THEN [manifest |-> None, listing_failed |-> TRUE]
                 ELSE ScanCollectionsFrom(r.manifest, k + 1, total_scanned + r.count,
                          Truthy(ctx.limit) /\ total_scanned + r.count >= ctx.limit[1],
                          listing_failed \/ r.listing_failed, ctx))

\* a scan that opens the statistics of every target collection up front
scan_StatsUpFront(objects, collections, limit, fail) ==
    IF collections = <<>> /\ fail = "list_collections"
    THEN [manifest |-> None, listing_failed |-> TRUE]
    ELSE Let(IF collections # <<>> THEN collections ELSE list_collections(objects),
             LAMBDA target_collections :
                 ScanCollectionsFrom(
                     [create_new("s3") EXCEPT
                         !.collections = target_collections,
                         !.collection_stats =
                             [c \in {target_collections[i] :
                                        i \in 1..Len(target_collections)} |->
                                 CollectionStats(c)]],
                     1, 0, FALSE, FALSE,
                     [limit |-> limit, objects |-> objects, fail |-> fail]))

\* Scanner.scan(collections, limit) over the objects of the storage, with the
\* listing call `fail` raising ("none": no call raises): the Manifest it
\* returns, None when the exception leaves scan, and whether a listing call
\* that was made has raised.  An empty collections list is as good as None.
scan(objects, collections, limit, fail) ==
    IF collections = <<>> /\ fail = "list_collections"
    THEN [manifest |-> None, listing_failed |-> TRUE]
    ELSE Let(IF collections # <<>> THEN collections ELSE list_collections(objects),
             LAMBDA target_collections :
                 ScanCollectionsFrom(
                     [create_new("s3") EXCEPT !.collections = target_collections],
                     1, 0, FALSE, FALSE,
                     [limit |-> limit, objects |-> objects, fail |-> fail]))

\* dict.get(key, default)
Get(data, key, default) == IF key \in DOMAIN data THEN data[key] ELSE default

\* ThumbnailInfo.to_dict: asdict(self)
ThumbnailInfo_to_dict(info) ==
    [scale |-> info.scale, key |-> info.key, size |-> info.size,
     modified |-> info.modified]

\* ThumbnailInfo.from_dict: cls(**data)
ThumbnailInfo_from_dict(data) ==
    ThumbnailInfo(data.scale, data.key, data.size, data.modified)

\* CollectionStats.to_dict: asdict(self)
CollectionStats_to_dict(stats) ==
    [name |-> stats.name, total_images |-> stats.total_images,
     with_thumbnails |-> stats.with_thumbnails,
     missing_thumbnails |-> stats.missing_thumbnails,
     total_original_bytes |-> stats.total_original_bytes,
     total_thumbnail_bytes |-> stats.total_thumbnail_bytes]

\* CollectionStats.from_dict: cls(**data), the counters default to 0
CollectionStats_from_dict(data) ==
    [name |-> data.name,
     total_images |-> Get(data, "total_images", 0),
     with_thumbnails |-> Get(data, "with_thumbnails", 0),
     missing_thumbnails |-> Get(data, "missing_thumbnails", 0),
     total_original_bytes |-> Get(data, "total_original_bytes", 0),
     total_thumbnail_bytes |-> Get(data, "total_thumbnail_bytes", 0)]

\* ImageRecord.to_dict: the thumbnails are keyed by str(scale)
ImageRecord_to_dict(record) ==
    [original_key       |-> record.original_key,
     original_size      |-> record.original_size,
     original_modified  |-> record.original_modified,
     base_thumbnail_key |-> record.base_thumbnail_key,
     collection         |-> record.collection,
     filename           |-> record.filename,
     thumbnails         |->
        [k \in {IntToStr(scale) : scale \in DOMAIN record.thumbnails} |->
            ThumbnailInfo_to_dict(
                record.thumbnails[CHOOSE scale \in DOMAIN record.thumbnails :
                                      IntToStr(scale) = k])]]

\* Manifest.to_dict (scan_duration_seconds, a float, is left out)
Manifest_to_dict(m) ==
    [created_at       |-> m.created_at,
     storage_type     |-> m.storage_type,
     s3_endpoint      |-> m.s3_endpoint,
     s3_bucket        |-> m.s3_bucket,
     s3_prefix        |-> m.s3_prefix,
     local_root       |-> m.local_root,
     collections      |-> m.collections,
     collection_stats |->
        [name \in DOMAIN m.collection_stats |->
            CollectionStats_to_dict(m.collection_stats[name])],
     records          |->
        [i \in 1..Len(m.records) |-> ImageRecord_to_dict(m.records[i])]]

\* a from_dict that knows the per-scale shape only
ImageRecord_from_dict_NoLegacy(data) ==
    [original_key       |-> data.original_key,
     original_size      |-> data.original_size,
     original_modified  |-> data.original_modified,
     base_thumbnail_key |-> Get(data, "base_thumbnail_key", <<>>),
     collection         |-> data.collection,
     filename           |-> data.filename,
     thumbnails         |->
        IF "thumbnails" \in DOMAIN data
        THEN [scale \in {StrToInt(k) : k \in DOMAIN data.thumbnails} |->
                 ThumbnailInfo_from_dict(
                     data.thumbnails[CHOOSE k \in DOMAIN data.thumbnails :
                                         StrToInt(k) = scale])]
        ELSE <<>>]

\* ImageRecord.from_dict: int(scale_str) keys; a legacy record (no
\* 'thumbnails', a truthy 'thumbnail_exists') gets one thumbnail at scale 200
\* whose key has "_200" put before the first "." of the base key
ImageRecord_from_dict(data) ==
    LET base_key ==
            IF "base_thumbnail_key" \in DOMAIN data /\ data.base_thumbnail_key # <<>>
            THEN data.base_thumbnail_key
            ELSE IF "thumbnail_key" \in DOMAIN data THEN data.thumbnail_key ELSE <<>>
        dot == Find(base_key, ".")
        legacy_key ==
            IF dot > 0
            THEN SubSeq(base_key, 1, dot - 1) \o <<"_", "2", "0", "0", ".">>
                 \o Tail0(base_key, dot + 1)
            ELSE base_key \o <<"_", "2", "0", "0">>
        thumbnails ==
            IF "thumbnails" \in DOMAIN data
            THEN [scale \in {StrToInt(k) : k \in DOMAIN data.thumbnails} |->
                     ThumbnailInfo_from_dict(
                         data.thumbnails[CHOOSE k \in DOMAIN data.thumbnails :
                                             StrToInt(k) = scale])]
            ELSE IF "thumbnail_exists" \in DOMAIN data /\ data.thumbnail_exists
            THEN 200 :> ThumbnailInfo(200, legacy_key,
                            IF "thumbnail_size" \in DOMAIN data
                            THEN data.thumbnail_size ELSE 0,
                            IF "thumbnail_modified" \in DOMAIN data
                            THEN data.thumbnail_modified ELSE "")
            ELSE <<>>
    IN  [original_key       |-> data.original_key,
         original_size      |-> data.original_size,
         original_modified  |-> data.original_modified,
         base_thumbnail_key |-> base_key,
         collection         |-> data.collection,
         filename           |-> data.filename,
         thumbnails         |-> thumbnails]

\* a from_dict that does not restore the statistics
Manifest_from_dict_NoStats(data) ==
    [created_at       |-> data.created_at,
     s3_endpoint      |-> Get(data, "s3_endpoint", None),
     s3_bucket        |-> Get(data, "s3_bucket", None),
     s3_prefix        |-> Get(data, "s3_prefix", "attachments"),
     storage_type     |-> Get(data, "storage_type", "s3"),
     local_root       |-> Get(data, "local_root", None),
     collections      |-> Get(data, "collections", <<>>),
     collection_stats |-> <<>>,
     records          |->
        [i \in 1..Len(Get(data, "records", <<>>)) |->
            ImageRecord_from_dict(data.records[i])]]

\* Manifest.from_dict
Manifest_from_dict(data) ==
    [created_at       |-> data.created_at,
     s3_endpoint      |-> Get(data, "s3_endpoint", None),
     s3_bucket        |-> Get(data, "s3_bucket", None),
     s3_prefix        |-> Get(data, "s3_prefix", "attachments"),
     storage_type     |-> Get(data, "storage_type", "s3"),
     local_root       |-> Get(data, "local_root", None),
     collections      |-> Get(data, "collections", <<>>),
     collection_stats |->
        [name \in DOMAIN Get(data, "collection_stats", <<>>) |->
            CollectionStats_from_dict(data.collection_stats[name])],
     records          |->
        [i \in 1..Len(Get(data, "records", <<>>)) |->
            ImageRecord_from_dict(data.records[i])]]

\* Manifest.save: the manifest file holds json.dump(self.to_dict())
SaveManifest ==
    /\ manifest # None
    /\ manifestFile = None
    /\ manifestFile' = Some(Manifest_to_dict(manifest[1]))
    /\ UNCHANGED <<storage, manifest, scanCall, gen, run, calls, history, cmd, now>>

\* Manifest.load: from_dict of the manifest file
LoadManifest ==
    /\ manifestFile # None
    /\ cmd.pc = "none"
    /\ manifest' = Some(Manifest_from_dict(manifestFile[1]))
    /\ cmd' = [cmd EXCEPT !.pc = "loaded"]
    /\ UNCHANGED <<storage, manifestFile, scanCall, gen, run, calls, history, now>>

\* cmd_scan: scan, then Manifest.save and exit code 0; exit code 1 and no file
\* when scan raised
ScanCmd(collections, limit, fail) ==
    /\ \E r \in {scan(storage, collections, limit, fail)} :
           /\ manifest' = r.manifest
           /\ manifestFile' = IF r.manifest = None THEN manifestFile
                              ELSE Some(Manifest_to_dict(r.manifest[1]))
           /\ scanCall' = [collections |-> collections, limit |-> limit, fail |-> fail,
                           listing_failed |-> r.listing_failed,
                           exit |-> Some(IF r.manifest = None THEN 1 ELSE 0),
                           after |-> Len(history)]
    /\ UNCHANGED <<storage, gen, run, calls, history, cmd, now>>

\* cmd_generate up to the generate_from_manifest call: Manifest.load of the
\* manifest file and a new Generator
CmdGenerateLoad(cadence, dry_run, size) ==
    /\ run.pc \in {"idle", "returned"}
    /\ manifestFile # None
    /\ manifest' = Some(Manifest_from_dict(manifestFile[1]))
    /\ gen' = Generator(cadence, dry_run, size)
    /\ run' = [IdleRun EXCEPT !.pc = "loaded"]
    /\ calls' = NoCalls
    /\ UNCHANGED <<storage, manifestFile, scanCall, history, cmd, now>>

\* a cmd_generate that goes on with a stale Manifest whatever --force says
CmdGenerateCheck_NoStaleGate(readable, force) ==
    /\ cmd.pc = "none"
    /\ IF manifestFile = None \/ ~readable
       THEN /\ cmd' = [cmd EXCEPT !.pc = "exited", !.name = "generate",
                                  !.force = force, !.exit = Some(1)]
            /\ UNCHANGED manifest
       ELSE LET m == Manifest_from_dict(manifestFile[1])
            IN  /\ manifest' = Some(m)
                /\ cmd' = [cmd EXCEPT !.name = "generate", !.force = force,
                                      !.stale = is_stale(m, None),
                                      !.age = age_hours(m),
                                      !.pc = "config"]
    /\ UNCHANGED <<storage, manifestFile, scanCall, gen, run, calls, history, now>>

\* cmd_generate up to the storage configuration: Manifest.load (a missing or
\* unreadable file: exit code 1), then the staleness gate (a stale Manifest
\* without --force: exit code 1)
CmdGenerateCheck(readable, force) ==
    /\ cmd.pc = "none"
    /\ IF manifestFile = None \/ ~readable
       THEN /\ cmd' = [cmd EXCEPT !.pc = "exited", !.name = "generate",
                                  !.force = force, !.exit = Some(1)]
            /\ UNCHANGED manifest
       ELSE LET m == Manifest_from_dict(manifestFile[1])
                stale == is_stale(m, None)
            IN  /\ manifest' = Some(m)
                /\ cmd' = [cmd EXCEPT !.name = "generate", !.force = force,
                                      !.stale = stale,
                                      !.age = age_hours(m),
                                      !.pc = IF stale /\ ~force THEN "exited"
                                             ELSE "config",
                                      !.exit = IF stale /\ ~force THEN Some(1)
                                               ELSE None]
    /\ UNCHANGED <<storage, manifestFile, scanCall, gen, run, calls, history, now>>

\* cmd_generate from the storage configuration to the Generator: a
\* configuration with validation errors is exit code 1; else the storage
\* client and the Generator are constructed
CmdGenerateConfig(valid, cadence, dry_run, size) ==
    /\ cmd.pc = "config"
    /\ IF valid
       THEN /\ cmd' = [cmd EXCEPT !.pc = "generate", !.client = TRUE]
            /\ gen' = Generator(cadence, dry_run, size)
            /\ run' = [IdleRun EXCEPT !.pc = "loaded"]
            /\ calls' = NoCalls
       ELSE /\ cmd' = [cmd EXCEPT !.pc = "exited", !.exit = Some(1)]
            /\ UNCHANGED <<gen, run, calls>>
    /\ UNCHANGED <<storage, manifest, manifestFile, scanCall, history, now>>

\* a cmd_generate that returns 0 whatever the run's errors
CmdGenerateReturn_AlwaysZero ==
    /\ cmd.pc = "generate"
    /\ run.pc = "returned"
    /\ cmd' = [cmd EXCEPT !.pc = "exited", !.exit = Some(0)]
    /\ UNCHANGED <<storage, manifest, manifestFile, scanCall, gen, run, calls,
                   history, now>>

\* return 0 if stats.errors == 0 else 1
CmdGenerateReturn ==
    /\ cmd.pc = "generate"
    /\ run.pc = "returned"
    /\ cmd' = [cmd EXCEPT !.pc = "exited",
                          !.exit = Some(IF gen.stats.errors = 0 THEN 0 ELSE 1)]
    /\ UNCHANGED <<storage, manifest, manifestFile, scanCall, gen, run, calls,
                   history, now>>

\* KeyboardInterrupt inside the try block of cmd_generate: no handler of the
\* Generator catches it, cmd_generate returns 130
CmdGenerateInterrupt ==
    /\ cmd.pc = "generate"
    /\ cmd' = [cmd EXCEPT !.pc = "exited", !.exit = Some(130)]
    /\ run' = [run EXCEPT !.pc = "interrupted"]
    /\ UNCHANGED <<storage, manifest, manifestFile, scanCall, gen, calls, history, now>>

(***************************************************************************)
(* Reporter: what each report computes from the Manifest                   *)
(***************************************************************************)
\* the records a report with a collections filter looks at
ReportedRecords(m, collections) ==
    {i \in 1..Len(m.records) :
        collections = <<>> \/ InList(m.records[i].collection, collections)}

RECURSIVE SumField(_, _, _)
SumField(stats, names, field) ==
    IF names = {} THEN 0
    ELSE LET c == CHOOSE x \in names : TRUE
         IN  stats[c][field] + SumField(stats, names \ {c}, field)

\* Reporter.report_summary
report_summary(m) ==
    [age |-> age_hours(m), stale |-> is_stale(m, None),
     total_images |-> total_images(m),
     with_thumbnails |-> total_with_thumbnails(m),
     missing_thumbnails |-> total_missing_thumbnails(m),
     collections |-> DOMAIN m.collection_stats]

\* Reporter.report_detailed: the summary, then the byte totals
report_detailed(m) ==
    [summary |-> report_summary(m),
     total_original |->
        SumField(m.collection_stats, DOMAIN m.collection_stats, "total_original_bytes"),
     total_thumb |->
        SumField(m.collection_stats, DOMAIN m.collection_stats, "total_thumbnail_bytes")]

\* Reporter.report_action_plan
report_action_plan(m, collections) ==
    [stale |-> is_stale(m, None),
     to_generate |->
        Cardinality({i \in ReportedRecords(m, collections) :
                        ~thumbnail_exists(m.records[i])})]

\* Reporter.report_missing_files: the file names listed, and the total
\* the loop of report_missing_files from record i on, `count` lines printed so
\* far: a record of the selected collections without any thumbnail is
\* printed, and the loop breaks once count >= limit
RECURSIVE MissingLines(_, _, _, _, _)
MissingLines(records, i, collections, limit, count) ==
    IF i > Len(records) THEN <<>>
    ELSE LET record == records[i]
         IN  IF collections # <<>> /\ ~InList(record.collection, collections)
             THEN MissingLines(records, i + 1, collections, limit, count)
             ELSE IF thumbnail_exists(record)
             THEN MissingLines(records, i + 1, collections, limit, count)
             ELSE <<[collection |-> record.collection, filename |-> record.filename]>>
                  \o (IF count + 1 >= limit THEN <<>>
                      ELSE MissingLines(records, i + 1, collections, limit, count + 1))

\* Reporter.report_missing_files: the lines listed, the "... and N more" line
\* (printed at the break, when manifest.total_missing_thumbnails - count > 0)
\* and the total
report_missing_files(m, collections, limit) ==
    LET listed == MissingLines(m.records, 1, collections, limit, 0)
        count  == Len(listed)
        remaining == total_missing_thumbnails(m) - count
    IN  [listed |-> listed,
         more |-> IF count >= 1 /\ count >= limit /\ remaining > 0
                  THEN Some(remaining) ELSE None,
         total_missing |-> total_missing_thumbnails(m)]

\* the default of the limit parameter of report_missing_files
DefaultMissingLimit == 100

\* Reporter._analyze_thumbnail_sizes, as report_thumbnail_sizes prints it
report_thumbnail_sizes(m, collections) ==
    LET seen == ReportedRecords(m, collections)
        all_scales == UNION {DOMAIN m.records[i].thumbnails : i \in seen}
    IN  [all_scales |-> all_scales,
         total_images |-> Cardinality(seen),
         with_any_thumb |->
            Cardinality({i \in seen : DOMAIN m.records[i].thumbnails # {}}),
         count |-> [scale \in all_scales |->
                      Cardinality({i \in seen :
                                      scale \in DOMAIN m.records[i].thumbnails})]]

ReportTypes == {"summary", "detailed", "plan", "missing", "sizes"}

\* cmd_report up to the report: Manifest.load (a missing or unreadable file:
\* exit code 1)
CmdReportLoad(readable) ==
    /\ cmd.pc = "none"
    /\ IF manifestFile = None \/ ~readable
       THEN /\ cmd' = [cmd EXCEPT !.pc = "exited", !.name = "report",
                                  !.exit = Some(1)]
            /\ UNCHANGED manifest
       ELSE /\ manifest' = Some(Manifest_from_dict(manifestFile[1]))
            /\ cmd' = [cmd EXCEPT !.pc = "report", !.name = "report"]
    /\ UNCHANGED <<storage, manifestFile, scanCall, gen, run, calls, history, now>>

\* cmd_report: the report of the given type, then exit code 0
CmdReport(type, collections) ==
    /\ cmd.pc = "report"
    /\ LET m == manifest[1]
       IN  cmd' = [cmd EXCEPT
                     !.pc = "exited",
                     !.exit = Some(0),
                     !.output =
                        CASE type = "summary" -> report_summary(m)
                          [] type = "detailed" -> report_detailed(m)
                          [] type = "plan" -> report_action_plan(m, collections)
                          [] type = "missing" ->
                               report_missing_files(m, collections, DefaultMissingLimit)
                          [] type = "sizes" -> report_thumbnail_sizes(m, collections)]
    /\ UNCHANGED <<storage, manifest, manifestFile, scanCall, gen, run, calls,
                   history, now>>

\* the process dies between two records of the generation loop
Crash ==
    /\ run.pc = "loop"
    /\ run.i > 1
    /\ run.i <= Len(run.records)
    /\ history' = Append(history, [Summary EXCEPT !.crashed = TRUE])
    /\ run' = IdleRun
    /\ manifest' = None
    /\ UNCHANGED <<storage, manifestFile, scanCall, gen, calls, cmd, now>>

(***************************************************************************)
(* SpecManifest: add_record calls on an initially empty Manifest, which is  *)
(* then saved and loaded                                                   *)
(***************************************************************************)
MaxRecords == 3

RecordUniverse ==
    {RecordOf(c, f, S) : c \in {"bot", "ich"}, f \in {F_a, F_m, F_z},
                         S \in {{}, {200}, {200, 400}}}

InitManifest ==
    /\ now = 0
    /\ cmd = NoCmd
    /\ storage = {}
    /\ manifest = Some(create_new("s3"))
    /\ manifestFile = None
    /\ scanCall = NoScan
    /\ gen = Generator(1, FALSE, 200)
    /\ run = IdleRun
    /\ calls = NoCalls
    /\ history = <<>>

AddRecord ==
    /\ Len(manifest[1].records) < MaxRecords
    /\ \E record \in RecordUniverse :
          manifest' = Some(add_record(manifest[1], record))
    /\ UNCHANGED <<storage, manifestFile, scanCall, gen, run, calls, history, cmd, now>>

\* the Manifest is complete when it is saved
BuildManifest ==
    /\ manifestFile = None
    /\ AddRecord

NextManifest ==
    \/ BuildManifest
    \/ SaveManifest
    \/ LoadManifest

SpecManifest == InitManifest /\ [][NextManifest]_vars

RECURSIVE SumOver(_, _, _)
SumOver(stats, names, field) ==
    IF names = {} THEN 0
    ELSE LET c == CHOOSE x \in names : TRUE
         IN  stats[c][field] + SumOver(stats, names \ {c}, field)

\* C1: after any sequence of add_record calls on an empty Manifest, every
\* collection's statistics have total_images = with_thumbnails +
\* missing_thumbnails, and the Manifest totals computed from the records equal
\* the sums of these fields over collection_stats.
C1_StatsMatchRecords ==
    LET m     == manifest[1]
        stats == m.collection_stats
    IN  /\ \A c \in DOMAIN stats :
              stats[c].total_images =
                  stats[c].with_thumbnails + stats[c].missing_thumbnails
        /\ total_images(m) = SumOver(stats, DOMAIN stats, "total_images")
        /\ total_with_thumbnails(m) = SumOver(stats, DOMAIN stats, "with_thumbnails")
        /\ total_missing_thumbnails(m) =
               SumOver(stats, DOMAIN stats, "missing_thumbnails")

\* three records in two collections, some with and some without a thumbnail
C1_Witness ==
    LET m == manifest[1]
    IN  /\ Len(m.records) = 3
        /\ Cardinality(DOMAIN m.collection_stats) = 2
        /\ total_with_thumbnails(m) >= 1
        /\ total_missing_thumbnails(m) >= 1

\* C12: Manifest.from_dict(m.to_dict()) of a Manifest m built by add_record
\* has the same ordered records (every field, and the same map from integer
\* scales to descriptors), the same collection_stats, the same collections
\* list and the same storage provenance as m.
C12_RoundTrip ==
    [][(cmd.pc = "none" /\ cmd'.pc = "loaded") =>
          /\ manifest'[1].records = manifest[1].records
          /\ \A i \in 1..Len(manifest'[1].records) :
                DOMAIN manifest'[1].records[i].thumbnails \subseteq Int
          /\ manifest'[1].collection_stats = manifest[1].collection_stats
          /\ manifest'[1].collections = manifest[1].collections
          /\ \A f \in {"storage_type", "s3_endpoint", "s3_bucket", "s3_prefix",
                        "local_root"} : manifest'[1][f] = manifest[1][f]]_vars

\* a loaded Manifest of three records in two collections, one of them with
\* thumbnails at two scales
C12_Witness ==
    /\ cmd.pc = "loaded"
    /\ Len(manifest[1].records) = 3
    /\ Cardinality(DOMAIN manifest[1].collection_stats) = 2
    /\ \E i \in 1..3 : DOMAIN manifest[1].records[i].thumbnails = {200, 400}
    /\ \E i \in 1..3 : DOMAIN manifest[1].records[i].thumbnails = {}

\* the permutations of 1..n
Orders(n) ==
    {p \in [1..n -> 1..n] : \A i, j \in 1..n : p[i] = p[j] => i = j}

\* C14: adding the records of a Manifest to an empty Manifest in any
\* permutation yields the same collection_stats (the same keys and the same
\* five counters per collection) and the same Manifest totals.
C14_OrderIndependent ==
    LET m == manifest[1]
        n == Len(m.records)
    IN  manifestFile = None => \A p \in Orders(n) :
            LET permuted == AddRecords(create_new("s3"),
                                       [i \in 1..n |-> m.records[p[i]]])
            IN  /\ permuted.collection_stats = m.collection_stats
                /\ total_images(permuted) = total_images(m)
                /\ total_with_thumbnails(permuted) = total_with_thumbnails(m)
                /\ total_missing_thumbnails(permuted) = total_missing_thumbnails(m)

\* three different records, two of one collection with thumbnails of
\* different total size and one of another collection without any
C14_Witness ==
    LET m == manifest[1]
    IN  /\ manifestFile = None
        /\ Len(m.records) = 3
        /\ Cardinality({m.records[i] : i \in 1..3}) = 3
        /\ \E i, j, k \in 1..3 :
              /\ m.records[i].collection = "bot"
              /\ DOMAIN m.records[i].thumbnails = {200, 400}
              /\ m.records[j].collection = "bot"
              /\ DOMAIN m.records[j].thumbnails = {200}
              /\ i < j
              /\ m.records[k].collection = "ich"
              /\ DOMAIN m.records[k].thumbnails = {}

\* the statistics of a collection: those add_record keeps, or the fresh
\* entry of a collection without records
StatsOf(m, c) ==
    IF c \in DOMAIN m.collection_stats
    THEN m.collection_stats[c]
    ELSE CollectionStats(c)

\* C21: thumbnail_coverage is 100 when total_images is 0 and
\* with_thumbnails / total_images * 100 otherwise; for statistics kept by
\* add_record it lies between 0 and 100.
C21_CoverageInRange ==
    \A c \in {"bot", "ich"} :
        LET stats    == StatsOf(manifest[1], c)
            coverage == thumbnail_coverage(stats)
        IN  /\ coverage.den > 0
            /\ stats.total_images = 0 => coverage.num = 100 * coverage.den
            /\ stats.total_images # 0 =>
                  coverage.num * stats.total_images =
                      stats.with_thumbnails * 100 * coverage.den
            /\ 0 <= coverage.num
            /\ coverage.num <= 100 * coverage.den

\* a collection of three images, two of them with thumbnails (one with two
\* scales), and a collection without images
C21_Witness ==
    LET m == manifest[1]
    IN  /\ DOMAIN m.collection_stats = {"bot"}
        /\ m.collection_stats["bot"].total_images = 3
        /\ thumbnail_coverage(m.collection_stats["bot"]) = Percent(200, 3)
        /\ \E i \in DOMAIN m.records :
              Cardinality(DOMAIN m.records[i].thumbnails) = 2
        /\ thumbnail_coverage(StatsOf(m, "ich")) = Percent(100, 1)

(***************************************************************************)
(* SpecStale: a Manifest that ages, is backdated, and is asked is_stale    *)
(***************************************************************************)
MaxHours == 48

\* the hours at which the clock is read
ClockHours == {1, AGE_WARNING_HOURS, AGE_WARNING_HOURS + 1, MaxHours}

\* time passes
Tick ==
    /\ \E h \in ClockHours : h > now /\ now' = h
    /\ UNCHANGED <<storage, manifest, manifestFile, scanCall, gen, run, calls,
                   history, cmd>>

\* old_time = datetime.now() - timedelta(hours=48)
BackdateHours == 48

\* manifest.created_at = old_time.isoformat()
Backdate ==
    /\ manifest # None
    /\ manifest[1].created_at = 0
    /\ manifest' = Some([manifest[1] EXCEPT !.created_at = now - BackdateHours])
    /\ UNCHANGED <<storage, manifestFile, scanCall, gen, run, calls, history, cmd, now>>

\* the threshold_hours a caller of is_stale may supply; None: not supplied
Thresholds == {None, Some(-1), Some(0), Some(1), Some(AGE_WARNING_HOURS), Some(MaxHours)}

\* manifest.is_stale(threshold_hours) is called; the call's argument, the age
\* it saw and its result are kept
IsStale ==
    /\ manifest # None
    /\ \E threshold_hours \in Thresholds :
          cmd' = [cmd EXCEPT !.pc = "checked",
                             !.threshold = threshold_hours,
                             !.age = age_hours(manifest[1]),
                             !.stale = is_stale(manifest[1], threshold_hours)]
    /\ UNCHANGED <<storage, manifest, manifestFile, scanCall, gen, run, calls,
                   history, now>>

NextStale ==
    \/ Tick
    \/ Backdate
    \/ IsStale

SpecStale == InitManifest /\ [][NextStale]_vars

\* C16 as stated: is_stale(threshold) is true iff the age in hours exceeds
\* the threshold, for every threshold supplied, and the threshold is 24 hours
\* when none is supplied.
C16_StaleIffOlder ==
    cmd.pc = "checked" =>
        LET threshold == IF cmd.threshold = None THEN AGE_WARNING_HOURS
                         ELSE cmd.threshold[1]
        IN  cmd.stale = (cmd.age > threshold)

\* the same for the calls without a threshold or with a threshold other
\* than 0: not stale right after creation, stale when backdated 48 hours
StaleIffOlderThanNonZero ==
    (cmd.threshold = None \/ cmd.threshold[1] # 0) =>
        /\ C16_StaleIffOlder
        /\ (cmd.pc = "checked" /\ cmd.threshold = None) =>
              /\ cmd.age = 0 => ~cmd.stale
              /\ cmd.age = BackdateHours => cmd.stale

(***************************************************************************)
(* SpecLegacy: a manifest file whose records have the legacy shape (one    *)
(* thumbnail, no per-scale map) is loaded                                  *)
(***************************************************************************)
\* a field of a dict that may be absent: None, or Some(value)
Field(name, value) == IF value = None THEN <<>> ELSE name :> value[1]

\* a record as the single-thumbnail format wrote it
LegacyRecord(collection, filename, exists, size, modified) ==
    LET key == Key(collection, "originals", filename)
    IN  [original_key      |-> key,
         original_size     |-> Len(key),
         original_modified |-> "t0",
         thumbnail_key     |-> S3_get_thumbnail_key(key),
         collection        |-> collection,
         filename          |-> filename]
        @@ Field("thumbnail_exists", exists)
        @@ Field("thumbnail_size", size)
        @@ Field("thumbnail_modified", modified)

\* a file name with two dots
F_a_tar == <<"a", ".", "tar", ".", "jpg">>

\* legacy records of bot/a.jpg and of ich/a.tar.jpg
LegacyRecords ==
    {LegacyRecord(c, IF c = "bot" THEN F_a ELSE F_a_tar, exists, size, modified) :
        c \in {"bot", "ich"},
        exists \in {None, Some(TRUE), Some(FALSE)},
        size \in {None, Some(ThumbLen)},
        modified \in {None, Some("t1")}}

MaxLegacy == 2

\* the manifest file: the records, and the statistics of these records
LegacyFile(records) ==
    [Manifest_to_dict(
        AddRecords(create_new("s3"),
                   [i \in 1..Len(records) |-> ImageRecord_from_dict(records[i])]))
     EXCEPT !.records = records]

InitLegacy ==
    /\ now = 0
    /\ cmd = NoCmd
    /\ storage = {}
    /\ manifest = None
    /\ \E n \in 1..MaxLegacy : \E records \in [1..n -> LegacyRecords] :
          manifestFile = Some(LegacyFile(records))
    /\ scanCall = NoScan
    /\ gen = Generator(1, FALSE, 200)
    /\ run = IdleRun
    /\ calls = NoCalls
    /\ history = <<>>

NextLegacy == LoadManifest

SpecLegacy == InitLegacy /\ [][NextLegacy]_vars

\* C19: from_dict of a legacy-shaped record gives a record whose
\* base_thumbnail_key is the legacy thumbnail_key and whose thumbnail map is
\* exactly {200: descriptor with the legacy size and modified time} when
\* thumbnail_exists is true, and empty when it is false or absent.
C19_LegacyRecord ==
    cmd.pc = "loaded" =>
        \A i \in 1..Len(manifestFile[1].records) :
            LET data   == manifestFile[1].records[i]
                record == manifest[1].records[i]
            IN  /\ "thumbnails" \notin DOMAIN data
                /\ record.base_thumbnail_key = data.thumbnail_key
                /\ IF "thumbnail_exists" \in DOMAIN data /\ data.thumbnail_exists
                   THEN /\ DOMAIN record.thumbnails = {200}
                        /\ record.thumbnails[200].scale = 200
                        /\ record.thumbnails[200].size =
                              Get(data, "thumbnail_size", 0)
                        /\ record.thumbnails[200].modified =
                              Get(data, "thumbnail_modified", "")
                   ELSE DOMAIN record.thumbnails = {}

\* a loaded file of two legacy records, one with a thumbnail and its size
\* and time, one without the thumbnail_exists field
C19_Witness ==
    /\ cmd.pc = "loaded"
    /\ Len(manifest[1].records) = 2
    /\ DOMAIN manifest[1].records[1].thumbnails = {200}
    /\ manifest[1].records[1].thumbnails[200].size = ThumbLen
    /\ manifest[1].records[1].thumbnails[200].modified = "t1"
    /\ "thumbnail_exists" \notin DOMAIN manifestFile[1].records[2]
    /\ DOMAIN manifest[1].records[2].thumbnails = {}

\* the number of "." in a string
RECURSIVE Dots(_)
Dots(str) ==
    IF str = <<>> THEN 0
    ELSE (IF Head(str) = "." THEN 1 ELSE 0) + Dots(Tail(str))

\* C29 as stated: for every record loaded from the legacy shape with
\* thumbnail_exists true, the key of the synthesized scale-200 descriptor
\* equals record.get_thumbnail_key(200), for every base key (keys with more
\* than one dot included).
C29_LegacyKeyDerivable ==
    cmd.pc = "loaded" =>
        \A i \in 1..Len(manifest[1].records) :
            LET record == manifest[1].records[i]
            IN  200 \in DOMAIN record.thumbnails =>
                    record.thumbnails[200].key = get_thumbnail_key(record, 200)

\* the same for the base keys with one dot
C29_OneDot ==
    cmd.pc = "loaded" =>
        \A i \in 1..Len(manifest[1].records) :
            LET record == manifest[1].records[i]
            IN  (200 \in DOMAIN record.thumbnails
                    /\ Dots(record.base_thumbnail_key) = 1) =>
                    record.thumbnails[200].key = get_thumbnail_key(record, 200)

\* a legacy record of a.jpg was loaded with its thumbnail under a_200.jpg
LegacyKeyLoaded ==
    /\ cmd.pc = "loaded"
    /\ \E i \in 1..Len(manifest[1].records) :
          /\ manifest[1].records[i].filename = F_a
          /\ 200 \in DOMAIN manifest[1].records[i].thumbnails
          /\ manifest[1].records[i].thumbnails[200].key =
                Key("bot", "thumbnails", <<"a", "_", "2", "0", "0", ".", "jpg">>)

(***************************************************************************)
(* SpecKeys: one original, its record as a scan makes it, and the          *)
(* generation of its thumbnail at one scale                                *)
(***************************************************************************)
\* directories under originals/, one of them with a dot in its name
KeyDirs == {<<>>, <<"a", "/", "b", "/">>, <<"a", ".", "b", "/">>}

\* file name stems: plain, ending in _<digits>, with dots and underscores
KeyStems ==
    {<<"a">>, <<"a", "_", "1">>, <<"a", "_", "2", "0", "0">>, <<"a", ".", "b">>,
     <<"a", "_">>, <<"_">>, <<"1">>, <<"a", ".", "b", "_", "1">>}

KeyExts == {"jpg", "png"}

KeyScales == {1, 9, 10, 200, 1024}

InitKeys ==
    /\ now = 0
    /\ cmd = NoCmd
    /\ \E dir \in KeyDirs, stem \in KeyStems, ext \in KeyExts :
          LET original == Obj("bot", "originals", dir \o stem \o <<".", ext>>)
          IN  /\ storage = {original}
              /\ manifest = Some(add_record(
                                 [create_new("s3") EXCEPT !.collections = <<"bot">>],
                                 ScannedRecord(original.key, "bot", <<>>, None,
                                               {original}, "none")))
    /\ manifestFile = None
    /\ scanCall = NoScan
    /\ \E size \in KeyScales : gen = Generator(1, FALSE, size)
    /\ run = IdleRun
    /\ calls = NoCalls
    /\ history = <<>>

KeysGenerate ==
    /\ history = <<>>
    /\ GenerateStart(<<>>, None, FALSE, None)

NextKeys ==
    \/ KeysGenerate
    \/ LoopHead
    \/ Download(TRUE)
    \/ Transcode(TRUE)
    \/ Upload(TRUE)

SpecKeys == InitKeys /\ [][NextKeys]_vars

\* the thumbnails in storage: the objects that are not the original
UploadedThumbnails ==
    {o.key : o \in {x \in storage : x.key # manifest[1].records[1].original_key}}

RecordOptions(collection, filename, scaleSets) ==
    {<<>>} \cup {<<RecordOf(collection, filename, S)>> : S \in scaleSets}

\* Manifests as a scan leaves them: collection by collection, file names
\* ascending within a collection
ScannedManifests ==
    {[AddRecords(create_new("s3"), ba \o bz \o ia)
         EXCEPT !.collections = <<"bot", "ich">>] :
        ba \in RecordOptions("bot", F_a, {{}, {200}}),
        bz \in RecordOptions("bot", F_z, {{}}),
        ia \in RecordOptions("ich", F_a, {{400}})}

\* the objects a Manifest speaks of: its originals and their thumbnails
ObjectsOf(m) ==
    UNION {{[key |-> m.records[i].original_key, size |-> m.records[i].original_size]}
           \cup {[key |-> m.records[i].thumbnails[s].key,
                  size |-> m.records[i].thumbnails[s].size] :
                    s \in DOMAIN m.records[i].thumbnails} :
           i \in 1..Len(m.records)}

ArgCollections == {<<>>, <<"bot">>}
ArgResume == {None, Some(<<"m">>)}
ArgLimit == {None, Some(0), Some(1)}

InitGen ==
    /\ now = 0
    /\ cmd = NoCmd
    /\ \E m \in ScannedManifests :
          /\ manifest = Some(m)
          /\ storage = ObjectsOf(m)
    /\ manifestFile = None
    /\ scanCall = NoScan
    /\ \E dry_run \in BOOLEAN : gen = Generator(1, dry_run, 200)
    /\ run = IdleRun
    /\ calls = NoCalls
    /\ history = <<>>

MaxCalls == 2

\* generate_from_manifest is called; a later call on the same Generator
\* repeats the arguments of the call before it
Generate ==
    /\ Len(history) < MaxCalls
    /\ \E collections \in ArgCollections, resume_from \in ArgResume,
          progress \in BOOLEAN, limit \in ArgLimit :
          /\ history # <<>> =>
                history[Len(history)].args =
                    GenerateArgs(collections, resume_from, progress, limit)
          /\ GenerateStart(collections, resume_from, progress, limit)

NextGen ==
    \/ Stop
    \/ Generate
    \/ LoopHead
    \/ \E ok \in BOOLEAN : Download(ok)
    \/ \E ok \in BOOLEAN : Transcode(ok)
    \/ \E ok \in BOOLEAN : Upload(ok)

SpecGen == InitGen /\ [][NextGen]_vars

(***************************************************************************)
(* SpecEnum: the enumeration of the candidates of generate_from_manifest   *)
(* over Manifests in any record order                                      *)
(***************************************************************************)
EnumCollections == {<<>>, <<"bot">>}
EnumResume == {None, Some(<<"m">>)}

\* the Manifest is filled before it is handed to the Generator
EnumAddRecord ==
    /\ run.pc = "idle"
    /\ AddRecord

Enumerate ==
    /\ history = <<>>
    /\ run.pc = "idle"
    /\ \E collections \in EnumCollections, resume_from \in EnumResume :
          GenerateStart(collections, resume_from, FALSE, None)

NextEnum ==
    \/ EnumAddRecord
    \/ Enumerate

SpecEnum == InitManifest /\ [][NextEnum]_vars

\* the records of a selected collection that lack the target scale
Selected(record) ==
    /\ run.args.collections # <<>> => InList(record.collection, run.args.collections)
    /\ gen.size \notin DOMAIN record.thumbnails

AtOrAfterCursor(record) ==
    run.args.resume_from # None => StrGe(record.filename, run.args.resume_from[1])

\* file names ascending within each collection
AscendingPerCollection(records) ==
    \A i, j \in 1..Len(records) :
        i < j /\ records[i].collection = records[j].collection
            => StrGe(records[j].filename, records[i].filename)

AsSet(seq) == {seq[i] : i \in 1..Len(seq)}

\* C2 as stated: for a Manifest ascending within each collection, the
\* candidates are exactly the records that lack the target scale, belong to a
\* selected collection and have filename >= resume_from.
C2_CandidatesAreFilter ==
    (run.pc = "loop" /\ AscendingPerCollection(manifest[1].records))
        => AsSet(run.records) =
               {r \in AsSet(manifest[1].records) : Selected(r) /\ AtOrAfterCursor(r)}

\* what the enumeration yields: the records that lack the target scale and
\* belong to a selected collection, in Manifest order, from the first of them
\* whose filename >= resume_from on (all of them without a cursor)
CandidatesFromCursor ==
    LET eligible == SelectSeq(manifest[1].records, Selected)
        reached  == {i \in 1..Len(eligible) : AtOrAfterCursor(eligible[i])}
        first    == CHOOSE i \in reached : \A j \in reached : i <= j
    IN  IF reached = {} THEN <<>> ELSE SubSeq(eligible, first, Len(eligible))

EnumeratedFromCursor ==
    run.pc = "loop" => run.records = CandidatesFromCursor

\* a cursor "m", and a candidate of a later collection whose file name sorts
\* before the cursor, in a Manifest ascending within each collection
C2_Witness ==
    /\ run.pc = "loop"
    /\ run.args.resume_from = Some(<<"m">>)
    /\ AscendingPerCollection(manifest[1].records)
    /\ \E i, j \in 1..Len(run.records) :
          /\ i < j
          /\ run.records[i].collection = "bot"
          /\ run.records[i].filename \in {F_m, F_z}
          /\ run.records[j].collection = "ich"
          /\ run.records[j].filename = F_a

(***************************************************************************)
(* Properties of generate_from_manifest, checked under SpecGen             *)
(***************************************************************************)
Returned == {history[k] : k \in 1..Len(history)}

\* C3: in a non-dry-run call every record before the current one has been
\* counted exactly once, as processed or as an error with one message each,
\* every record has been attempted (a download call per record, whatever
\* failed before it), and a call that ran through its N candidates returns
\* processed + errors = N.
C3_FailuresAreCounted ==
    (calls.enumerated /\ ~gen.dry_run) =>
        LET stats == gen.stats
            done  == run.i - 1
        IN  /\ stats.processed + stats.errors = done
            /\ Len(stats.error_details) = stats.errors
            /\ calls.download = IF run.pc \in {"transcode", "upload"}
                                THEN done + 1 ELSE done
            /\ stats.total_to_process = Len(run.records)
            /\ \A h \in Returned :
                  (h.calls.enumerated /\ ~h.stopped) =>
                      /\ h.stats.processed + h.stats.errors = h.stats.total_to_process
                      /\ Len(h.stats.error_details) = h.stats.errors

\* a returned call over 2 candidates, the download of one of them failed
C3_Witness ==
    /\ ~gen.dry_run
    /\ \E h \in Returned :
          /\ ~h.stopped
          /\ h.stats.total_to_process = 2
          /\ h.stats.processed = 1
          /\ h.stats.errors = 1
          /\ Len(h.stats.error_details) = 1
          /\ h.calls.download = 2
          /\ h.calls.generate = 1
          /\ h.calls.upload = 1

\* C4 as stated: after a first non-dry-run call that completed without
\* errors, a second call with the same Manifest, target scale and arguments
\* has total_to_process = 0, processed = 0, no download and no upload.
C4_SecondRunProcessesNothing ==
    (/\ ~gen.dry_run
     /\ Len(history) >= 1
     /\ history[1].calls.enumerated /\ ~history[1].stopped
     /\ history[1].stats.errors = 0
     /\ \/ Len(history) = 2
        \/ run.pc \notin {"idle", "returned"})
        => /\ gen.stats.total_to_process = 0
           /\ gen.stats.processed = 0
           /\ calls.download = 0
           /\ calls.upload = 0

C10_StoppedBeforeStart ==
    [][(gen.stop_requested /\ run.pc \in {"idle", "loaded", "returned"} /\ run' # run) =>
          /\ run'.pc = "returned"
          /\ gen'.stats.total_to_process = 0
          /\ gen'.stats.processed = 0
          /\ gen'.stats.errors = 0
          /\ calls' = NoCalls
          /\ storage' = storage]_vars

\* a call made after stop() on a Manifest with candidates, with an observer
C10_Witness ==
    /\ Len(history) = 1
    /\ run.pc = "returned"
    /\ history[1].stopped
    /\ ~history[1].calls.enumerated
    /\ run.args.progress
    /\ gen.stats.total_to_process = 0
    /\ Len(CandidatesFromCursor) >= 1

\* the first min(n, Len(seq)) elements of seq
FirstN(seq, n) == SubSeq(seq, 1, IF n < Len(seq) THEN n ELSE Len(seq))

\* the candidates of the call in progress, as _get_records_to_process yields
\* them from the Manifest
Candidates ==
    get_records_to_process(manifest[1], run.args.collections,
                           run.args.resume_from, gen.size)

\* C11 as stated: the candidates are enumerated before any record is
\* processed and total_to_process is fixed then: it is the number C of
\* candidates without a limit and min(L, C) for every limit L >= 0, and the
\* records processed are the first min(L, C) candidates in Manifest order.
C11_LimitFixesTotal ==
    calls.enumerated =>
        LET limit == run.args.limit
            todo  == IF limit = None THEN Candidates
                     ELSE FirstN(Candidates, limit[1])
        IN  /\ gen.stats.total_to_process = Len(todo)
            /\ run.records = todo

\* the same for the calls without a limit or with a limit L >= 1
PositiveLimitFixesTotal ==
    (run.args.limit = None \/ Truthy(run.args.limit)) => C11_LimitFixesTotal

\* the most candidates a Manifest of ScannedManifests has
MaxCandidates == 3

\* stop() has been called while candidate k of call h + 1 is in its
\* download, transcode or upload
StoppedDuring(k, h) ==
    /\ gen.stop_requested
    /\ run.pc \in {"download", "transcode", "upload"}
    /\ run.i = k
    /\ Len(history) = h

\* candidate k is finished and counted and no later candidate is started;
\* the call returns with processed + errors = k
StoppedAfter(k, h) ==
    IF Len(history) = h
    THEN /\ run.i \in {k, k + 1}
         /\ run.i = k => run.pc \in {"download", "transcode", "upload"}
         /\ run.i = k + 1 =>
               /\ run.pc = "loop"
               /\ gen.stats.processed + gen.stats.errors = k
         /\ calls.download <= k
         /\ calls.upload <= k
    ELSE Len(history) > h =>
         LET call == history[h + 1]
         IN  /\ call.stopped
             /\ call.stats.processed + call.stats.errors = k
             /\ k <= call.stats.total_to_process
             /\ call.calls.download = k
             /\ call.calls.upload <= k

\* C22: if stop() is called while candidate k is being processed, candidate
\* k's download, transcode and upload are not pre-empted and its outcome is
\* counted, no candidate after k is started, and generate_from_manifest
\* returns with processed + errors = k <= total_to_process.
C22_StopDuringCandidate ==
    \A k \in 1..MaxCandidates : \A h \in 0..MaxCalls :
        [](StoppedDuring(k, h) => [](StoppedAfter(k, h)))

\* a call stopped during its first candidate of three returned after having
\* uploaded that one thumbnail
C22_Witness ==
    /\ Len(history) = 1
    /\ run.pc = "returned"
    /\ history[1].stopped
    /\ history[1].stats.total_to_process = 3
    /\ history[1].stats.processed = 1
    /\ history[1].stats.errors = 0
    /\ history[1].calls.upload = 1
    /\ history[1].calls.download = 1

\* stop() was called between the download and the upload of the first of
\* three candidates
StoppedMidCandidate ==
    /\ StoppedDuring(1, 0)
    /\ run.pc = "upload"
    /\ Len(run.records) = 3

\* C23: in a run that is not a dry run the steps of a candidate are
\* download(original_key), transcode, upload in this order; upload is invoked
\* only after the download and the transcode of that candidate succeeded, at
\* most once per candidate, and to record.get_thumbnail_key(target scale); a
\* candidate whose download or transcode failed causes no upload and no
\* change to storage.
C23_StepOrder ==
    /\ [][/\ (run'.pc = "download" /\ run' # run) =>
               /\ run.pc = "loop"
               /\ ~gen.dry_run
               /\ run'.i = run.i
          /\ (run'.pc = "transcode" /\ run' # run) =>
               /\ run.pc = "download"
               /\ run'.i = run.i
               /\ run.records[run.i].original_key \in Keys(storage)
               /\ calls'.download = calls.download + 1
          /\ (run'.pc = "upload" /\ run' # run) =>
               /\ run.pc = "transcode"
               /\ run'.i = run.i
               /\ calls'.generate = calls.generate + 1
          /\ calls'.upload > calls.upload =>
               /\ run.pc = "upload"
               /\ calls'.upload = calls.upload + 1
               /\ run'.pc = "loop"
               /\ run'.i = run.i + 1
          /\ storage' # storage =>
               /\ run.pc = "upload"
               /\ calls'.upload = calls.upload + 1
               /\ gen'.stats.processed = gen.stats.processed + 1
               /\ storage' =
                     upload_object(storage,
                                   get_thumbnail_key(run.records[run.i], gen.size),
                                   ThumbLen)
          /\ (run.pc \in {"download", "transcode"} /\ run'.pc = "loop") =>
               /\ gen'.stats.errors = gen.stats.errors + 1
               /\ calls'.upload = calls.upload
               /\ storage' = storage
               /\ run'.i = run.i + 1]_vars
    /\ [](run.pc \in {"loop", "download", "transcode", "upload", "returned"} =>
            LET started == IF run.pc \in {"download", "transcode", "upload"}
                           THEN run.i
                           ELSE IF run.i = 0 THEN 0 ELSE run.i - 1
            IN  /\ calls.upload <= calls.generate
                /\ calls.generate <= calls.download
                /\ calls.download <= started
                /\ gen.dry_run => calls.download = 0)

\* a run of two candidates: the transcode of one failed, the other was
\* uploaded to its scale-200 key
C23_Witness ==
    /\ run.pc = "returned"
    /\ ~gen.dry_run
    /\ Len(run.records) = 2
    /\ calls.download = 2
    /\ calls.generate = 2
    /\ calls.upload = 1
    /\ gen.stats.errors = 1
    /\ gen.stats.processed = 1
    /\ \E i \in 1..2 :
          /\ get_thumbnail_key(run.records[i], 200) \in Keys(storage)
          /\ get_thumbnail_key(run.records[3 - i], 200) \notin Keys(storage)

(***************************************************************************)
(* SpecObserver: the same generate_from_manifest twice on one Manifest,    *)
(* first without a progress observer, then with one whose callbacks may    *)
(* raise.  The storage behaves the same in both: a download fails iff the  *)
(* original is missing; the codec and the uploads succeed.                 *)
(***************************************************************************)
InitObserver ==
    /\ now = 0
    /\ cmd = NoCmd
    /\ \E m \in ScannedManifests :
          /\ manifest = Some(m)
          /\ \E missing \in SUBSET {Key("bot", "originals", F_z)} :
                storage = {o \in ObjectsOf(m) : o.key \notin missing}
    /\ manifestFile = None
    /\ scanCall = NoScan
    /\ \E dry_run \in BOOLEAN : gen = Generator(1, dry_run, 200)
    /\ run = IdleRun
    /\ calls = NoCalls
    /\ history = <<>>

\* the call without the observer, then the call with it
ObsGenerate ==
    /\ Len(history) <= 1
    /\ \E collections \in ArgCollections :
          /\ history # <<>> => history[1].args.collections = collections
          /\ GenerateStart(collections, None, history # <<>>, None)

\* the original of the current record is in storage
OriginalStored == run.records[run.i].original_key \in Keys(storage)

ObsDownload ==
    /\ run.pc = "download"
    /\ Download(OriginalStored)

ObsFailureRaises ==
    /\ run.pc = "download"
    /\ ~OriginalStored
    /\ OnFailureRaises

ObsProgressUpdateRaises ==
    /\ run.pc \in {"loop", "download", "upload"}
    /\ OnProgressUpdateRaises(run.pc = "upload")
    /\ run.pc = "download" => ~OriginalStored

NextObserver ==
    \/ ObsGenerate
    \/ LoopHead
    \/ ObsDownload
    \/ Transcode(TRUE)
    \/ Upload(TRUE)
    \/ OnDryRunRaises
    \/ \E again \in BOOLEAN : OnFileProcessedRaises(again)
    \/ ObsFailureRaises
    \/ ObsProgressUpdateRaises

SpecObserver == InitObserver /\ [][NextObserver]_vars

\* the call with the observer has ended, by a return or by an exception
ObservedCallEnded ==
    /\ Len(history) >= 1
    /\ run.args.progress
    /\ run.pc \in {"returned", "raised"}

\* the call with the observer did what the call without it did
SameAsUnobserved ==
    /\ run.pc = "returned"
    /\ gen.stats.total_to_process = history[1].stats.total_to_process
    /\ gen.stats.processed = history[1].stats.processed
    /\ gen.stats.errors = history[1].stats.errors
    /\ gen.stats.error_details = history[1].stats.error_details
    /\ calls.upload = history[1].calls.upload
    /\ calls.download = history[1].calls.download

\* C24: observers are purely advisory: with the same Manifest, storage
\* behaviour and arguments, a run with a progress observer (whatever its
\* callbacks do, including raising an exception) processes the same
\* candidates, makes the same uploads and returns the same processed, errors
\* and error_details as the run without an observer.
C24_ObserverAdvisory == ObservedCallEnded => SameAsUnobserved

\* the same for an observer none of whose callbacks raised
QuietObserverAdvisory ==
    (ObservedCallEnded /\ calls.raised = 0) => SameAsUnobserved

\* the candidates of the call that have been started
StartedCandidates ==
    IF run.pc \in {"download", "transcode", "upload", "raised"} THEN run.i
    ELSE run.i - 1

\* C26 as stated: at every point of a generate_from_manifest run, with or
\* without a progress observer, processed + skipped + errors <=
\* total_to_process and each candidate has been counted in at most one of
\* processed or errors; when the run ends without a stop request, processed +
\* errors = total_to_process and remaining_count = 0.
C26_CountsBounded ==
    calls.enumerated =>
        /\ completed_count(gen.stats) <= gen.stats.total_to_process
        /\ gen.stats.processed + gen.stats.errors <= StartedCandidates
        /\ Len(gen.stats.error_details) = gen.stats.errors
        /\ (run.pc = "returned" /\ ~gen.stop_requested) =>
              /\ gen.stats.processed + gen.stats.errors = gen.stats.total_to_process
              /\ remaining_count(gen.stats) = 0

\* the same as long as no callback of the observer has raised
QuietCountsBounded == calls.raised = 0 => C26_CountsBounded

\* a run with a quiet observer returned with two candidates counted once each
QuietRunCounted ==
    /\ run.pc = "returned"
    /\ run.args.progress
    /\ calls.raised = 0
    /\ calls.observer >= 4
    /\ gen.stats.total_to_process = 2
    /\ gen.stats.processed = 1
    /\ gen.stats.errors = 1

(***************************************************************************)
(* SpecLatch: calls of generate_from_manifest on one Generator, each with  *)
(* its own Manifest and arguments, and stop() at any moment                *)
(***************************************************************************)
\* the Manifests handed to the calls: those without a thumbnail at the
\* target scale, with no, one, two or three candidates
LatchManifests ==
    {m \in ScannedManifests :
        \A i \in 1..Len(m.records) : ~has_thumbnail(m.records[i], Some(200))}

InitLatch ==
    /\ now = 0
    /\ cmd = NoCmd
    /\ manifest \in {Some(m) : m \in LatchManifests}
    /\ storage = UNION {ObjectsOf(m) : m \in LatchManifests}
    /\ manifestFile = None
    /\ scanCall = NoScan
    /\ gen = Generator(0, FALSE, 200)
    /\ run = IdleRun
    /\ calls = NoCalls
    /\ history = <<>>

\* the caller takes another Manifest for the next call
LatchManifest ==
    /\ run.pc = "returned"
    /\ Len(history) < MaxCalls
    /\ \E m \in LatchManifests :
          /\ Some(m) # manifest
          /\ manifest' = Some(m)
    /\ UNCHANGED <<storage, manifestFile, scanCall, gen, run, calls, history, cmd, now>>

LatchGenerate ==
    /\ Len(history) < MaxCalls
    /\ \E collections \in ArgCollections, progress \in BOOLEAN,
          limit \in {None, Some(1)} :
          GenerateStart(collections, None, progress, limit)

NextLatch ==
    \/ Stop
    \/ LatchManifest
    \/ LatchGenerate
    \/ LoopHead
    \/ \E ok \in BOOLEAN : Download(ok)
    \/ Transcode(TRUE)
    \/ Upload(TRUE)

SpecLatch == InitLatch /\ [][NextLatch]_vars

\* C27: the stop request is a latch: once stop() has been called no operation
\* clears it, so every later generate_from_manifest call on that Generator
\* (any Manifest, any arguments) returns with total_to_process = 0 and makes
\* no download or upload.
C27_StopIsLatch ==
    /\ [][gen.stop_requested =>
            /\ gen'.stop_requested
            /\ (run.pc \in {"idle", "returned"} /\ run' # run) =>
                  /\ run'.pc = "returned"
                  /\ gen'.stats.total_to_process = 0
                  /\ storage' = storage]_vars
    /\ [](\A j \in 1..Len(history) :
            (\E k \in 1..(j - 1) : history[k].stopped) =>
                /\ history[j].stopped
                /\ history[j].stats.total_to_process = 0
                /\ history[j].stats.processed = 0
                /\ history[j].calls.download = 0
                /\ history[j].calls.upload = 0
                /\ ~history[j].calls.enumerated)

\* a call stopped after its first upload, then a call with another Manifest
\* and other arguments that has candidates and returned at once
C27_Witness ==
    /\ Len(history) = 2
    /\ run.pc = "returned"
    /\ history[1].stopped
    /\ history[1].stats.processed = 1
    /\ history[1].stats.total_to_process = 2
    /\ history[2].args # history[1].args
    /\ history[2].stats.total_to_process = 0
    /\ Len(get_records_to_process(manifest[1], history[2].args.collections,
                                  None, gen.size)) = 3

(***************************************************************************)
(* SpecPlan: a dry run of generate_from_manifest and the action plan       *)
(* report on the same Manifest, with the same size and collections         *)
(***************************************************************************)
PlanSizes == {200, 400}

InitPlan ==
    /\ now = 0
    /\ cmd = [NoCmd EXCEPT !.pc = "report", !.name = "report"]
    /\ \E m \in ScannedManifests :
          /\ manifest = Some(m)
          /\ storage = ObjectsOf(m)
    /\ manifestFile = None
    /\ scanCall = NoScan
    /\ \E size \in PlanSizes : gen = Generator(1, TRUE, size)
    /\ run = IdleRun
    /\ calls = NoCalls
    /\ history = <<>>

\* generate_from_manifest with a collection filter, no cursor and no limit
PlanGenerate ==
    /\ run.pc = "idle"
    /\ \E collections \in ArgCollections :
          GenerateStart(collections, None, FALSE, None)

\* report --type plan with the size and the collections of the run
PlanReport ==
    /\ run.pc = "returned"
    /\ CmdReport("plan", run.args.collections)

NextPlan ==
    \/ PlanGenerate
    \/ LoopHead
    \/ PlanReport

SpecPlan == InitPlan /\ [][NextPlan]_vars

\* C28 as stated: for the same Manifest, thumbnail size and collection filter
\* the 'Thumbnails to Generate' count of report_action_plan equals the
\* total_to_process of generate_from_manifest at that target scale with no
\* resume cursor and no limit.
C28_PlanMatchesGenerate ==
    cmd.pc = "exited" => cmd.output.to_generate = gen.stats.total_to_process

\* every record of the Manifest with a thumbnail has one at the target scale
NoOtherScaleOnly ==
    \A i \in 1..Len(manifest[1].records) :
        thumbnail_exists(manifest[1].records[i]) =>
            has_thumbnail(manifest[1].records[i], Some(gen.size))

\* the counts agree for the Manifests without a record that has thumbnails
\* at other scales only
PlanMatchesOnTargetScale == NoOtherScaleOnly => C28_PlanMatchesGenerate

\* a plan and a run over two candidates, one record having the target scale
PlanMatched ==
    /\ cmd.pc = "exited"
    /\ NoOtherScaleOnly
    /\ cmd.output.to_generate = 2
    /\ gen.stats.processed = 2
    /\ Len(manifest[1].records) = 3

(***************************************************************************)
(* SpecMissing: Reporter.report_missing_files on a loaded Manifest, with a *)
(* collection filter and a limit                                           *)
(***************************************************************************)
MissingManifests ==
    {[AddRecords(create_new("s3"), ba \o bz \o ia)
         EXCEPT !.collections = <<"bot", "ich">>] :
        ba \in RecordOptions("bot", F_a, {{}, {200}}),
        bz \in RecordOptions("bot", F_z, {{}}),
        ia \in RecordOptions("ich", F_a, {{}, {400}})}

MaxMissingLimit == 3

MissingLimits == (1..MaxMissingLimit) \cup {DefaultMissingLimit}

InitMissing ==
    /\ now = 0
    /\ cmd = NoCmd
    /\ \E m \in MissingManifests :
          /\ storage = ObjectsOf(m)
          /\ manifestFile = Some(Manifest_to_dict(m))
    /\ manifest = None
    /\ scanCall = NoScan
    /\ gen = Generator(1, FALSE, 200)
    /\ run = IdleRun
    /\ calls = NoCalls
    /\ history = <<>>

\* reporter.report_missing_files(manifest, collections, limit): the arguments
\* of the call and what it printed
ReportMissing(collections, limit) ==
    /\ cmd.pc = "report"
    /\ cmd' = [cmd EXCEPT
                 !.pc = "exited",
                 !.exit = Some(0),
                 !.output = [collections |-> collections,
                             limit |-> limit,
                             printed |-> report_missing_files(manifest[1],
                                                             collections, limit)]]
    /\ UNCHANGED <<storage, manifest, manifestFile, scanCall, gen, run, calls,
                   history, now>>

NextMissing ==
    \/ \E readable \in BOOLEAN : CmdReportLoad(readable)
    \/ \E collections \in ArgCollections, limit \in MissingLimits :
          ReportMissing(collections, limit)

SpecMissing == InitMissing /\ [][NextMissing]_vars

\* the records without any thumbnail in the selected collections, in
\* Manifest order
RECURSIVE MissingSelected(_, _, _)
MissingSelected(records, i, collections) ==
    IF i > Len(records) THEN <<>>
    ELSE (IF /\ collections = <<>> \/ InList(records[i].collection, collections)
             /\ ~thumbnail_exists(records[i])
          THEN <<[collection |-> records[i].collection,
                  filename |-> records[i].filename]>>
          ELSE <<>>)
         \o MissingSelected(records, i + 1, collections)

\* a missing-files report has been printed
MissingReported == cmd.pc = "exited" /\ cmd.exit = Some(0)

\* C30 as stated: report_missing_files(manifest, collections, limit) lists
\* exactly min(limit, M) records, M being the number of records without any
\* thumbnail in the selected collections (all when none is given), in
\* Manifest order, and prints the overflow line iff M > limit, with the
\* count M - limit.
C30_MissingListBounded ==
    MissingReported =>
        LET selected == MissingSelected(manifest[1].records, 1, cmd.output.collections)
            M        == Len(selected)
            limit    == cmd.output.limit
            printed  == cmd.output.printed
        IN  /\ printed.listed = FirstN(selected, limit)
            /\ printed.more = IF M > limit THEN Some(M - limit) ELSE None

\* the same for the reports without a collection filter
UnfilteredMissingListBounded ==
    (MissingReported /\ cmd.output.collections = <<>>) => C30_MissingListBounded

\* an unfiltered report with limit 2 over three missing records printed two
\* lines and "... and 1 more"
OverflowPrinted ==
    /\ MissingReported
    /\ cmd.output.collections = <<>>
    /\ cmd.output.limit = 2
    /\ Len(cmd.output.printed.listed) = 2
    /\ cmd.output.printed.more = Some(1)
    /\ cmd.output.printed.total_missing = 3

(***************************************************************************)
(* SpecCmd: one generate or report command on the manifest file of an      *)
(* earlier scan                                                            *)
(***************************************************************************)
InitCmd ==
    /\ now = 0
    /\ cmd = NoCmd
    /\ \E m \in ScannedManifests :
          /\ storage = ObjectsOf(m)
          /\ manifestFile \in {None, Some(Manifest_to_dict(m))}
    /\ manifest = None
    /\ scanCall = NoScan
    /\ gen = Generator(1, FALSE, 200)
    /\ run = IdleRun
    /\ calls = NoCalls
    /\ history = <<>>

\* time passes between the scan and the command
CmdTick ==
    /\ cmd.pc = "none"
    /\ Tick

CmdGenerate ==
    /\ cmd.pc = "generate"
    /\ run.pc = "loaded"
    /\ GenerateStart(<<>>, None, FALSE, None)

NextCmd ==
    \/ CmdTick
    \/ \E readable, force \in BOOLEAN : CmdGenerateCheck(readable, force)
    \/ \E valid, dry_run \in BOOLEAN : CmdGenerateConfig(valid, 1, dry_run, 200)
    \/ CmdGenerate
    \/ LoopHead
    \/ \E ok \in BOOLEAN : Download(ok)
    \/ Transcode(TRUE)
    \/ \E ok \in BOOLEAN : Upload(ok)
    \/ CmdGenerateReturn
    \/ CmdGenerateInterrupt
    \/ \E readable \in BOOLEAN : CmdReportLoad(readable)
    \/ \E type \in ReportTypes, collections \in ArgCollections :
          CmdReport(type, collections)

SpecCmd == InitCmd /\ [][NextCmd]_vars

\* the generate command has loaded a Manifest older than 24 hours
LoadedStale == cmd.name = "generate" /\ cmd.age > AGE_WARNING_HOURS

\* C17: the generate command with a stale Manifest and without --force
\* returns 1 before a storage client is constructed and before any record is
\* downloaded, transcoded or uploaded; with --force the same stale Manifest
\* passes on to the storage configuration and the generation.
C17_StaleGate ==
    /\ [][(cmd.pc = "none" /\ LoadedStale') =>
             IF cmd'.force
             THEN cmd'.pc = "config" /\ cmd'.exit = None
             ELSE cmd'.pc = "exited" /\ cmd'.exit = Some(1)]_vars
    /\ []((LoadedStale /\ ~cmd.force) =>
             /\ cmd.exit = Some(1)
             /\ ~cmd.client
             /\ calls = NoCalls
             /\ run = IdleRun
             /\ storage = ObjectsOf(manifest[1]))

\* a Manifest of 48 hours with records to process, refused without --force
C17_Witness ==
    /\ LoadedStale
    /\ cmd.age = MaxHours
    /\ ~cmd.force
    /\ cmd.exit = Some(1)
    /\ \E i \in 1..Len(manifest[1].records) :
          ~has_thumbnail(manifest[1].records[i], Some(200))

\* the same Manifest with --force: the run has uploaded a thumbnail
ForcedStaleRan ==
    /\ LoadedStale /\ cmd.force
    /\ cmd.exit = Some(0)
    /\ calls.upload >= 1

\* C18: the generate command exits with 0 iff the generation run returns
\* with errors = 0; with 1 when the Manifest cannot be loaded, is refused as
\* stale, the storage configuration is invalid, or the run returns with
\* errors > 0; with 130 when it is interrupted during the generation.
C18_ExitCodes ==
    [][(cmd'.exit # cmd.exit /\ cmd'.name = "generate") =>
          LET code        == cmd'.exit[1]
              load_failed == cmd.pc = "none" /\ manifest' = None
              refused     == cmd.pc = "none" /\ LoadedStale' /\ ~cmd'.force
              invalid     == cmd.pc = "config" /\ ~cmd'.client
              returned    == cmd.pc = "generate" /\ run'.pc = "returned"
              interrupted == cmd.pc = "generate" /\ run'.pc = "interrupted"
          IN  /\ load_failed \/ refused \/ invalid \/ returned \/ interrupted
              /\ code = 0 <=> (returned /\ gen.stats.errors = 0)
              /\ (load_failed \/ refused \/ invalid) => code = 1
              /\ (returned /\ gen.stats.errors > 0) => code = 1
              /\ interrupted <=> code = 130]_vars

\* a run that processed one record and failed on another: exit code 1
C18_Witness ==
    /\ cmd.name = "generate"
    /\ cmd.exit = Some(1)
    /\ run.pc = "returned"
    /\ gen.stats.processed >= 1
    /\ gen.stats.errors >= 1

\* a generation interrupted after its first record
InterruptedRun ==
    /\ cmd.exit = Some(130)
    /\ run.pc = "interrupted"
    /\ gen.stats.processed = 1
    /\ gen.stats.total_to_process >= 2

\* C20: the Manifest is read-only for its consumers: once loaded, no step of
\* a generation (dry run or not, with or without errors) and no report
\* changes its records, their thumbnail maps, collection_stats or
\* collections, nor the manifest file; and a report makes no storage call.
C20_ManifestReadOnly ==
    [][/\ manifest # None =>
            /\ manifest' = manifest
            /\ manifest'[1].records = manifest[1].records
            /\ manifest'[1].collection_stats = manifest[1].collection_stats
            /\ manifest'[1].collections = manifest[1].collections
       /\ manifestFile' = manifestFile
       /\ cmd'.name = "report" =>
            /\ storage' = storage
            /\ calls' = calls]_vars

\* a generation that was not a dry run, uploaded a thumbnail, failed on
\* another record and returned: the Manifest still lists both as missing
C20_Witness ==
    /\ cmd.name = "generate"
    /\ cmd.pc = "exited"
    /\ run.pc = "returned"
    /\ ~gen.dry_run
    /\ calls.upload >= 1
    /\ gen.stats.processed >= 1
    /\ gen.stats.errors >= 1
    /\ manifest # None
    /\ Manifest_to_dict(manifest[1]) = manifestFile[1]
    /\ Cardinality({i \in DOMAIN manifest[1].records :
                        gen.size \notin DOMAIN manifest[1].records[i].thumbnails}) >= 2

\* a report over a loaded Manifest has produced its output
ReportMade ==
    /\ cmd.name = "report"
    /\ cmd.exit = Some(0)
    /\ manifest # None
    /\ Manifest_to_dict(manifest[1]) = manifestFile[1]
    /\ calls = NoCalls

(***************************************************************************)
(* SpecScan: the scan command over the storage namespaces                  *)
(***************************************************************************)
MaxLimit == 2

F_a_png == <<"a", ".", "png">>

\* originals, and objects of the thumbnail namespace: scaled thumbnails of
\* a.jpg and a.png, and an object under the unscaled name
ScanUniverse ==
    {Obj("bot", "originals", F_a), Obj("bot", "originals", F_a_png),
     Obj("bot", "originals", F_z), Obj("ich", "originals", F_a),
     Obj("bot", "thumbnails", <<"a", "_", "2", "0", "0", ".", "jpg">>),
     Obj("bot", "thumbnails", <<"a", "_", "2", "0", "0", ".", "png">>),
     Obj("bot", "thumbnails", F_a),
     Obj("ich", "thumbnails", <<"a", "_", "2", "0", "0", ".", "jpg">>),
     Obj("ich", "thumbnails", <<"a", "_", "4", "0", "0", ".", "jpg">>)}

ScanArgCollections == {<<>>, <<"bot">>, <<"ich", "bot">>}
ScanArgLimit == {None, Some(OnDemandMax + 1)} \cup {Some(n) : n \in 0..MaxLimit}

InitScan ==
    /\ now = 0
    /\ cmd = NoCmd
    /\ storage \in SUBSET ScanUniverse
    /\ manifest = None
    /\ manifestFile = None
    /\ scanCall = NoScan
    /\ gen = Generator(1, FALSE, 200)
    /\ run = IdleRun
    /\ calls = NoCalls
    /\ history = <<>>

\* one scan command
Scan ==
    /\ scanCall.exit = None
    /\ \E collections \in ScanArgCollections, limit \in ScanArgLimit,
          fail \in {"none"} \cup ListingCalls :
             ScanCmd(collections, limit, fail)

\* a scan command, and the load of its manifest file by a later command
NextScan ==
    \/ Scan
    \/ LoadManifest

SpecScan == InitScan /\ [][NextScan]_vars

\* the originals the storage lists across the target collections of the last
\* scan, in collection order then listing order
RECURSIVE ListedOriginals(_, _)
ListedOriginals(target, k) ==
    IF k > Len(target) THEN <<>>
    ELSE [i \in 1..Len(list_originals(storage, target[k])) |->
             [key |-> list_originals(storage, target[k])[i], collection |-> target[k]]]
         \o ListedOriginals(target, k + 1)

TargetCollections ==
    IF scanCall.collections # <<>> THEN scanCall.collections
    ELSE list_collections(storage)

\* C6 as stated: when a listing call made during scan has failed, scan returns
\* no Manifest and the scan command writes no manifest file and exits with 1.
C6_ScanFailClosed ==
    scanCall.listing_failed =>
        /\ manifest = None
        /\ manifestFile = None
        /\ scanCall.exit = Some(1)

\* C7 as stated: for a limit L >= 0 the Manifest of a scan holds exactly the
\* first min(L, N) of the N originals the storage lists across the target
\* collections, in collection order then listing order.
C7_LimitBoundsRecords ==
    (/\ scanCall.exit = Some(0) /\ scanCall.fail = "none"
     /\ scanCall.limit # None /\ scanCall.limit[1] >= 0) =>
        LET listed == ListedOriginals(TargetCollections, 1)
            L      == scanCall.limit[1]
            n      == IF L < Len(listed) THEN L ELSE Len(listed)
            m      == manifest[1]
        IN  /\ Len(m.records) = n
            /\ \A i \in 1..n : m.records[i].original_key = listed[i].key

\* the objects of the thumbnail namespace that carry a scale in their name
IsScaled(key) == extract_thumbnail_info(key) # None

\* C8 as stated: under either strategy every scanned original has one record,
\* whose base_thumbnail_key is the original key with originals replaced by
\* thumbnails and whose thumbnail map holds exactly the scales of the objects
\* of the thumbnail namespace whose normalized key is that base_thumbnail_key
\* (the entry 0 that stands for an object under the unscaled name aside).
C8_JoinByNormalizedKey ==
    (scanCall.exit = Some(0) /\ scanCall.fail = "none") =>
        LET m      == manifest[1]
            listed == ListedOriginals(TargetCollections, 1)
        IN  /\ \A i \in 1..Len(m.records) :
                  LET record == m.records[i]
                      base   == S3_get_thumbnail_key(record.original_key)
                      thumbs == list_thumbnails(storage, record.collection)
                  IN  /\ record.original_key = listed[i].key
                      /\ record.collection = listed[i].collection
                      /\ record.base_thumbnail_key = base
                      /\ (DOMAIN record.thumbnails) \ {0} =
                             {extract_thumbnail_info(thumbs[j])[1].scale : j \in
                                 {x \in 1..Len(thumbs) :
                                     /\ IsScaled(thumbs[x])
                                     /\ normalize_thumbnail_key(thumbs[x]) = base}}
            /\ ~Truthy(scanCall.limit) => Len(m.records) = Len(listed)

\* the same join for the scans that use the full index
FullIndexJoinsByNormalizedKey ==
    use_ondemand(scanCall.limit) \/ C8_JoinByNormalizedKey

\* C25 as stated: under both strategies a thumbnail object whose file name
\* does not match <stem>_<digits><extension> is recorded under scale 0 in
\* the thumbnail map of the record whose base_thumbnail_key equals the
\* object's key, so that record counts as having a thumbnail.
C25_UnscaledIsScaleZero ==
    (scanCall.exit = Some(0) /\ scanCall.fail = "none") =>
        \A i \in 1..Len(manifest[1].records) :
            LET record == manifest[1].records[i]
                thumbs == list_thumbnails(storage, record.collection)
            IN  \A j \in 1..Len(thumbs) :
                    (~IsScaled(thumbs[j]) /\ thumbs[j] = record.base_thumbnail_key) =>
                        /\ 0 \in DOMAIN record.thumbnails
                        /\ record.thumbnails[0].key = thumbs[j]
                        /\ thumbnail_exists(record)

\* the same for the scans that use the full index
FullIndexUnscaledIsScaleZero ==
    use_ondemand(scanCall.limit) \/ C25_UnscaledIsScaleZero

\* a full-index scan has filed the object under the unscaled name of a.jpg
\* as scale 0 of the record of a.jpg, next to its scale 200
UnscaledFiled ==
    /\ scanCall.exit = Some(0)
    /\ ~use_ondemand(scanCall.limit)
    /\ manifest # None
    /\ \E i \in 1..Len(manifest[1].records) :
          /\ manifest[1].records[i].filename = F_a
          /\ DOMAIN manifest[1].records[i].thumbnails = {0, 200}

\* the key set of collection_stats is the set of the records' collections
StatsKeysAreCollections(m) ==
    DOMAIN m.collection_stats =
        {m.records[i].collection : i \in 1..Len(m.records)}

\* C15: in the Manifest a scan produces with add_record, for any collections
\* argument and any limit, in the Manifest deserialized from its serialized
\* form and in the Manifest a later command loads, the key set of
\* collection_stats equals the set of distinct collections among the records.
C15_StatsKeysAreCollections ==
    /\ manifest # None => StatsKeysAreCollections(manifest[1])
    /\ manifestFile # None =>
           StatsKeysAreCollections(Manifest_from_dict(manifestFile[1]))

\* a loaded Manifest of a scan over two target collections, one of which
\* has records
C15_Witness ==
    /\ cmd.pc = "loaded"
    /\ scanCall.collections = <<"ich", "bot">>
    /\ DOMAIN manifest[1].collection_stats = {"bot"}
    /\ Len(manifest[1].records) = 2

(***************************************************************************)
(* SpecPipeline: scan and generate commands, run after run, with stops and *)
(* crashes                                                                 *)
(***************************************************************************)
MaxRuns == 3

PipelineUniverse ==
    {Obj("bot", "originals", F_a), Obj("bot", "originals", F_a_png),
     Obj("bot", "thumbnails", <<"a", "_", "2", "0", "0", ".", "png">>)}

PipelineLimit == {None, Some(MaxLimit)}

InitPipeline ==
    /\ now = 0
    /\ cmd = NoCmd
    /\ storage \in SUBSET PipelineUniverse
    /\ manifest = None
    /\ manifestFile = None
    /\ scanCall = NoScan
    /\ gen = Generator(1, FALSE, 200)
    /\ run = IdleRun
    /\ calls = NoCalls
    /\ history = <<>>

\* a scan command between two generate commands; every scan of a pipeline
\* is given the same limit
PipelineScan ==
    /\ run.pc \in {"idle", "returned"}
    /\ scanCall.exit = None \/ scanCall.after < Len(history)
    /\ \E limit \in PipelineLimit :
          /\ scanCall.exit # None => limit = scanCall.limit
          /\ ScanCmd(<<>>, limit, "none")

PipelineLoad ==
    /\ Len(history) < MaxRuns
    /\ CmdGenerateLoad(1, FALSE, 200)

PipelineGenerate ==
    /\ run.pc = "loaded"
    /\ GenerateStart(<<>>, None, FALSE, None)

\* stop() from outside, seen by the Generator at the next record boundary
PipelineStop ==
    /\ run.pc \in {"loaded", "loop"}
    /\ Stop

\* of the storage and codec calls of a pipeline, the upload may fail
NextPipeline ==
    \/ PipelineScan
    \/ PipelineLoad
    \/ PipelineGenerate
    \/ PipelineStop
    \/ Crash
    \/ LoopHead
    \/ Download(TRUE)
    \/ Transcode(TRUE)
    \/ \E ok \in BOOLEAN : Upload(ok)

SpecPipeline == InitPipeline /\ [][NextPipeline]_vars

CutShort(h) == h.crashed \/ h.stopped

\* a call on a newly scanned Manifest that ran through all its candidates
\* without an error
Complete(h) ==
    /\ ~h.crashed /\ ~h.stopped /\ h.calls.enumerated
    /\ h.fresh
    /\ h.stats.errors = 0

\* C5 as stated: after a scan and generate that was cut short, a scan and
\* generate that runs to completion without errors leaves every scanned
\* original with an object at its own locator of the target scale, and a
\* further scan and generate processes zero items.
C5_RerunRecovers ==
    LET n == Len(history)
    IN  /\ (/\ run.pc = "returned" /\ n >= 2
            /\ Complete(history[n])
            /\ \E j \in 1..(n - 1) : CutShort(history[j]))
               => \A i \in 1..Len(manifest[1].records) :
                     get_thumbnail_key(manifest[1].records[i], gen.size) \in Keys(storage)
        /\ \A k \in 3..n :
              (/\ Complete(history[k - 1])
               /\ history[k].fresh /\ ~history[k].crashed
               /\ \E j \in 1..(k - 2) : CutShort(history[j]))
                 => /\ history[k].stats.total_to_process = 0
                    /\ history[k].stats.processed = 0

====
